---- MODULE Spec2Model ----
(***************************************************************************)
(* Model of the search-orchestration engine of marketplace_scraper:        *)
(*   - the resilient fetch layer (src/scrapers/base_scraper.py and the     *)
(*     IherbScraper override in src/scrapers/iherb_scraper.py);            *)
(*   - the subset-matching result cache (src/storage/query_cache.py).      *)
(* Time is an integer clock `now` (the readings of time.time()); the       *)
(* sleeps of the code let an arbitrary amount of time pass between two     *)
(* steps of a call, which the Tick action models.                          *)
(***************************************************************************)
EXTENDS Integers, Sequences, FiniteSets, TLC

(* ------------------------------------------------------------------ *)
(* Program constants (src/config/settings.py)                          *)
(* ------------------------------------------------------------------ *)
REQUEST_DELAY == 2
MAX_RETRIES == 3
CIRCUIT_BREAKER_THRESHOLD == 3
MAX_DELAY_MULTIPLIER == 8
\* Read by _check_circuit; its declaration is not part of settings.py as
\* given, so only "a positive duration" is known of it.
CIRCUIT_BREAKER_COOLDOWN == 2
\* Read by QueryCache.__init__; same remark.
QUERY_CACHE_TTL == 2

(* ------------------------------------------------------------------ *)
(* Bounds of the model                                                 *)
(* ------------------------------------------------------------------ *)
\* the clock runs from 1 to MaxTime
MaxTime == 6
\* no new call is started once the failure counter has reached this value
MaxFailures == 5
\* the cache holds at most this many entries
MaxEntries == 2
\* while the cache is in use the clock runs from 1 to MaxCacheTime
MaxCacheTime == 4
\* at most this many list objects are created
MaxObjs == 4
\* a caller does not make a list longer than this
MaxListLen == 2
\* a raw query is made of at most this many pieces
MaxLexemes == 3
\* the deduplicator is given at most this many products
MaxProducts == 3
\* a raw query of multi_search is made of at most this many pieces
MaxPieces == 3

VARIABLES
    kind,           \* "base": BaseScraper page fetch, "iherb": IherbScraper override
    fs,             \* FetchState: the four fields set by BaseScraper.__init__
    now,            \* the clock
    pc,             \* position of the running call
    call,           \* the running (or last) call
    attempt,        \* loop index of the running retry loop
    primaryReqs,    \* history: session requests sent by the running call
    fallbackReqs,   \* history: cloudscraper requests sent by the running call
    result,         \* history: what the last call returned
    probe,          \* history: the running call found the breaker Open and let itself through
    freshFails,     \* history: failed fetches since construction, while nothing else happened
    lastOutcome,    \* history: what the last session request of the running call came back with
    entries,        \* QueryCache._entries
    lookup          \* history: arguments and return value of the find_subset_match that
                    \* has just returned, and the age the oldest entry had when it was
                    \* called (NoLookup once the cache or the clock has moved on)
VARIABLES
    heap,           \* the list objects: heap[o] is the content of list object o
    entryObj,       \* entryObj[i] is the list object that entries[i].results refers to
    held            \* the list objects the caller of the cache has a reference to
VARIABLES
    opc,            \* where the orchestrator is in the request it is serving
    req,            \* the request: kind, plan of base queries, negatives, sources
    bqi,            \* index in the plan of the base query being served
    tasks,          \* the run_one tasks of the current _run_scrapers call
    res,            \* the SearchResult being filled
    scraped,        \* the validated products of the current base query
    all_raw,        \* the products gathered so far for the request
    io,             \* what the request has done: lookups, tasks dispatched, sink writes
    missed          \* the cache misses of earlier searches that are younger than the TTL
VARIABLES
    rawq,           \* the raw query given to QueryPlanner.parse, as characters
    qplan,          \* what QueryPlanner.parse made of it
    verdict,        \* the last call of local_evaluate on the plan's AST
    replan          \* what QueryPlanner.parse made of the base queries joined with OR
VARIABLES
    dd_in,          \* the product list given to ProductDeduplicator.deduplicate
    dd_out,         \* what deduplicate returned for it
    dd_again        \* what deduplicate returned for the list it had returned

VARIABLES
    m_call,         \* the multi_search call: raw query, keywords, route, plan
    m_queue,        \* the queries of the call not yet run, in order
    m_acc,          \* the result being built and the products collected for it
    m_out,          \* what multi_search gave back: a SearchResult or an exception
    m_seen          \* what the call did: queries run, fetches, validator drops

fetchVars == <<kind, fs, pc, call, attempt, primaryReqs, fallbackReqs, result, probe,
               freshFails, lastOutcome>>
cacheVars == <<entries, lookup>>
copyVars == <<heap, entryObj, held>>
orchVars == <<opc, req, bqi, tasks, res, scraped, all_raw, io, missed>>
parseVars == <<rawq, qplan, verdict, replan>>
dedupVars == <<dd_in, dd_out, dd_again>>
multiVars == <<m_call, m_queue, m_acc, m_out, m_seen>>
queryVars == <<parseVars, dedupVars, multiVars>>
vars == <<kind, fs, now, pc, call, attempt, primaryReqs, fallbackReqs, result, probe,
          freshFails, lastOutcome, entries, lookup, heap, entryObj, held,
          opc, req, bqi, tasks, res, scraped, all_raw, io, missed,
          rawq, qplan, verdict, replan, dd_in, dd_out, dd_again,
          m_call, m_queue, m_acc, m_out, m_seen>>

Min(a, b) == IF a <= b THEN a ELSE b

(* ------------------------------------------------------------------ *)
(* BaseScraper: the breaker and the adaptive delay                     *)
(* ------------------------------------------------------------------ *)
Kinds == {"base", "iherb"}
Calls == {"fetch_get", "fetch_post", "get_page"}
\* what one request can come back with: a validated 200, a 200 that
\* _validate_response rejects, a 429, a 403, another status, an exception
Outcomes == {"ok", "invalid", "http429", "http403", "http500", "error"}

InitFetchState ==
    [consecutive_failures |-> 0,
     circuit_open |-> FALSE,
     circuit_opened_at |-> 0,
     current_delay |-> REQUEST_DELAY]

\* check_circuit with the cooldown comparison inverted (elapsed <= cooldown)
check_circuit_inverted(s, t) ==
    IF ~s.circuit_open
    THEN [blocked |-> FALSE, st |-> s]
    ELSE IF t - s.circuit_opened_at <= CIRCUIT_BREAKER_COOLDOWN
         THEN [blocked |-> FALSE, st |-> [s EXCEPT !.circuit_open = FALSE]]
         ELSE [blocked |-> TRUE, st |-> s]

\* check_circuit that clears the failure counter when it lets the probe through
check_circuit_resets_counter(s, t) ==
    IF ~s.circuit_open
    THEN [blocked |-> FALSE, st |-> s]
    ELSE IF t - s.circuit_opened_at >= CIRCUIT_BREAKER_COOLDOWN
         THEN [blocked |-> FALSE, st |-> [s EXCEPT !.circuit_open = FALSE,
                                                   !.consecutive_failures = 0]]
         ELSE [blocked |-> TRUE, st |-> s]

\* _check_circuit at time t: whether the request is blocked, and the state after
check_circuit(s, t) ==
    IF ~s.circuit_open
    THEN [blocked |-> FALSE, st |-> s]
    ELSE IF t - s.circuit_opened_at >= CIRCUIT_BREAKER_COOLDOWN
         THEN [blocked |-> FALSE, st |-> [s EXCEPT !.circuit_open = FALSE]]
         ELSE [blocked |-> TRUE, st |-> s]

\* record_success that forgets to reset the delay
record_success_keeps_delay(s) ==
    [s EXCEPT !.consecutive_failures = 0,
              !.circuit_open = FALSE,
              !.circuit_opened_at = 0]

record_success(s) ==
    [s EXCEPT !.consecutive_failures = 0,
              !.circuit_open = FALSE,
              !.circuit_opened_at = 0,
              !.current_delay = REQUEST_DELAY]

\* record_failure that opens the breaker only above the threshold (> for >=)
record_failure_above(s, t) ==
    LET n == s.consecutive_failures + 1 IN
    IF n > CIRCUIT_BREAKER_THRESHOLD
    THEN [s EXCEPT !.consecutive_failures = n,
                   !.circuit_open = TRUE,
                   !.circuit_opened_at = t]
    ELSE [s EXCEPT !.consecutive_failures = n]

\* record_failure that opens the breaker only when the counter reaches the
\* threshold (== for >=)
record_failure_exactly(s, t) ==
    LET n == s.consecutive_failures + 1 IN
    IF n = CIRCUIT_BREAKER_THRESHOLD
    THEN [s EXCEPT !.consecutive_failures = n,
                   !.circuit_open = TRUE,
                   !.circuit_opened_at = t]
    ELSE [s EXCEPT !.consecutive_failures = n]

record_failure(s, t) ==
    LET n == s.consecutive_failures + 1 IN
    IF n >= CIRCUIT_BREAKER_THRESHOLD
    THEN [s EXCEPT !.consecutive_failures = n,
                   !.circuit_open = TRUE,
                   !.circuit_opened_at = t]
    ELSE [s EXCEPT !.consecutive_failures = n]

\* escalate_delay without the cap
escalate_delay_uncapped(s) == [s EXCEPT !.current_delay = s.current_delay * 2]

escalate_delay(s) ==
    [s EXCEPT !.current_delay =
        Min(s.current_delay * 2, REQUEST_DELAY * MAX_DELAY_MULTIPLIER)]

\* fetch_attempt whose except clause does not cover the request: the error
\* leaves the loop
fetch_attempt_raises(s, o) ==
    CASE o = "ok" -> [st |-> record_success(s), ends |-> "return"]
      [] o = "invalid" -> [st |-> escalate_delay(s), ends |-> "continue"]
      [] o \in {"http429", "http403"} -> [st |-> escalate_delay(s), ends |-> "continue"]
      [] o = "http500" -> [st |-> s, ends |-> "continue"]
      [] o = "error" -> [st |-> s, ends |-> "raise"]

\* fetch_attempt that counts a failure for every attempt that failed
fetch_attempt_counts_attempts(s, o) ==
    LET failed(x) == [x EXCEPT !.consecutive_failures = @ + 1] IN
    CASE o = "ok" -> [st |-> record_success(s), ends |-> "return"]
      [] o = "invalid" -> [st |-> failed(escalate_delay(s)), ends |-> "continue"]
      [] o \in {"http429", "http403"} -> [st |-> failed(escalate_delay(s)), ends |-> "continue"]
      [] o = "http500" -> [st |-> failed(s), ends |-> "continue"]
      [] o = "error" -> [st |-> failed(s), ends |-> "continue"]

\* fetch_attempt that escalates the delay on every status other than 200
fetch_attempt_escalates_all(s, o) ==
    CASE o = "ok" -> [st |-> record_success(s), ends |-> "return"]
      [] o = "invalid" -> [st |-> escalate_delay(s), ends |-> "continue"]
      [] o \in {"http429", "http403", "http500"} ->
            [st |-> escalate_delay(s), ends |-> "continue"]
      [] o = "error" -> [st |-> s, ends |-> "continue"]

\* One iteration of the retry loop of _fetch_get / _fetch_post, the request
\* having come back with o: the state after it and how the iteration ends
\* ("return": with the response, "continue": next iteration).
fetch_attempt(s, o) ==
    CASE o = "ok" -> [st |-> record_success(s), ends |-> "return"]
      [] o = "invalid" -> [st |-> escalate_delay(s), ends |-> "continue"]
      [] o \in {"http429", "http403"} -> [st |-> escalate_delay(s), ends |-> "continue"]
      [] o = "http500" -> [st |-> s, ends |-> "continue"]
      [] o = "error" -> [st |-> s, ends |-> "continue"]

\* One iteration of the loop of IherbScraper._fetch_cloudscraper
cloudscraper_attempt(s, o) ==
    CASE o = "ok" -> [st |-> s, ends |-> "return"]
      [] o = "invalid" -> [st |-> escalate_delay(s), ends |-> "continue"]
      [] OTHER -> [st |-> s, ends |-> "continue"]

\* a fallback that records the success of its request
page_fallback_records(s, o) ==
    IF o \in {"ok", "invalid"} THEN [st |-> record_success(s), ends |-> "return"]
    ELSE [st |-> s, ends |-> "none"]

\* The fallback of BaseScraper._get_page, its request having come back with
\* o: any 200 is returned as a page, anything else (an exception too) gives
\* None; the state is not touched
page_fallback(s, o) ==
    IF o \in {"ok", "invalid"} THEN [st |-> s, ends |-> "return"]
    ELSE [st |-> s, ends |-> "none"]

\* How many requests the fallback of a page fetch may send
fallback_attempts(k) == IF k = "iherb" THEN MAX_RETRIES ELSE 1

(* ------------------------------------------------------------------ *)
(* QueryCache                                                          *)
(* ------------------------------------------------------------------ *)
Queries == {"q1", "q2"}
NegativeSets == SUBSET {"x", "y"}
SourceSets == {{"noon"}, {"noon", "amazon"}}
\* product lists a fetch can have produced
ProductLists == {<<"p1">>}
\* the key the lookups are made for (the stored entries range over all the
\* queries and source sets)
LookupQuery == "q1"
LookupSources == {"noon", "amazon"}

\* _evict_expired that keeps an entry whose age equals the TTL (<= for <)
evict_expired_late(es, t) ==
    LET Keep(e) == t - e.timestamp <= QUERY_CACHE_TTL
    IN SelectSeq(es, Keep)

\* _evict_expired that removes nothing
evict_expired_never(es, t) == es

\* _evict_expired: the entries younger than the TTL at time t, in order
evict_expired(es, t) ==
    LET Keep(e) == t - e.timestamp < QUERY_CACHE_TTL
    IN SelectSeq(es, Keep)

\* the condition of the loop of find_subset_match with the subset test the
\* wrong way round (requested subset of cached)
entry_matches_superset(e, q, negs, srcs) ==
    /\ e.base_query = q
    /\ e.source_ids = srcs
    /\ negs \subseteq e.negative_terms

\* the condition of the loop of find_subset_match
entry_matches(e, q, negs, srcs) ==
    /\ e.base_query = q
    /\ e.source_ids = srcs
    /\ e.negative_terms \subseteq negs

\* the loop of find_subset_match over the entries es: the copy of the first
\* matching entry's results, or None
first_match(es, q, negs, srcs) ==
    LET Hit(e) == entry_matches(e, q, negs, srcs)
        matching == SelectSeq(es, Hit)
    IN IF matching = <<>>
       THEN [hit |-> FALSE, results |-> <<>>]
       ELSE [hit |-> TRUE, results |-> Head(matching).results]

\* store that replaces the entry of the same key, if there is one
store_replacing(es, q, negs, srcs, results, t) ==
    LET e == [base_query |-> q, negative_terms |-> negs, source_ids |-> srcs,
              results |-> results, timestamp |-> t]
        Other(x) == ~(x.base_query = q /\ x.negative_terms = negs /\ x.source_ids = srcs)
    IN Append(SelectSeq(es, Other), e)

\* QueryCache.store at time t: the entries after it
store(es, q, negs, srcs, results, t) ==
    Append(es, [base_query |-> q,
                negative_terms |-> negs,
                source_ids |-> srcs,
                results |-> results,
                timestamp |-> t])

(* ------------------------------------------------------------------ *)
(* QueryCache and the lists of its callers as objects                   *)
(* ------------------------------------------------------------------ *)
\* what a caller can do to a list it has a reference to
Mutations == {"append", "remove", "replace"}

mutate(items, op) ==
    CASE op = "append" -> Append(items, "p2")
      [] op = "remove" -> SubSeq(items, 1, Len(items) - 1)
      [] op = "replace" -> [items EXCEPT ![1] = "p2"]

\* results=results: the entry refers to the caller's list
stored_list_shared(h, o) == [heap |-> h, obj |-> o]

\* results=list(results) in store: the entry gets a new list object with the
\* content of the caller's list o
stored_list(h, o) == [heap |-> Append(h, h[o]), obj |-> Len(h) + 1]

\* return entry.results: the caller gets the entry's list
returned_list_shared(h, o) == [heap |-> h, obj |-> o]

\* return list(entry.results) in find_subset_match: the caller gets a new list
\* object with the content of the entry's list o
returned_list(h, o) == [heap |-> Append(h, h[o]), obj |-> Len(h) + 1]

\* the loop of find_subset_match: the index of the first matching entry, 0 if none
first_match_index(es, q, negs, srcs) ==
    LET hits == {i \in DOMAIN es : entry_matches(es[i], q, negs, srcs)}
    IN IF hits = {} THEN 0 ELSE CHOOSE i \in hits : \A j \in hits : i <= j

(* ------------------------------------------------------------------ *)
(* SearchOrchestrator                                                   *)
(* ------------------------------------------------------------------ *)
Range(seq) == {seq[i] : i \in DOMAIN seq}

RECURSIVE Concat(_)
Concat(lists) == IF lists = <<>> THEN <<>> ELSE Head(lists) \o Concat(Tail(lists))

\* the sources argument: the ids of the selected sources, in order
SourceLists == {<<"noon">>, <<"noon", "amazon">>}

\* negative_keywords of a request
RequestNegatives == {{}, {"x"}}

\* the requests: search(query) has the query as its one base query;
\* execute_advanced_search(raw_query) has the base queries of the plan, if the
\* raw query compiles
Requests ==
    {[kind |-> "search", compiles |-> TRUE, plan |-> <<"q1">>,
      negs |-> negs, sources |-> srcs] :
        negs \in RequestNegatives, srcs \in SourceLists}
    \cup {[kind |-> "advanced", compiles |-> TRUE, plan |-> <<"q1", "q2">>,
            negs |-> {}, sources |-> <<"noon">>],
          [kind |-> "advanced", compiles |-> FALSE, plan |-> <<>>,
            negs |-> {}, sources |-> <<"noon">>]}

NoRequest == [kind |-> "none", compiles |-> TRUE, plan |-> <<>>, negs |-> {},
              sources |-> <<>>]

\* SearchResult(query=...); validated is the merged product list after the
\* validation at the end of the call, before the filters; raised says
\* whether the call raised instead of returning the result
NewResult == [cache_hits |-> 0, errors |-> <<>>, invalid_count |-> 0,
              validated |-> <<>>, raised |-> "no"]

NoIO == [lookups |-> 0, dispatched |-> 0, sink_writes |-> 0]

\* how scraper.search of one task can end: product pages were fetched and
\* parsed; the page fetch was exhausted (_get_page returned None, or the body
\* of search failed on what it got and its except clause caught that); search
\* raised
SearchOutcomes == {"products", "exhausted", "raises"}

\* the products a source's pages hold: the second product of noon has no price
page_products(src) == IF src = "noon" THEN <<"n1", "n0">> ELSE <<"a1">>

NoBatch == [type |-> "none", products |-> <<>>, msg |-> ""]

ListBatch(ps) == [type |-> "list", products |-> ps, msg |-> ""]

\* an exception raised in the task of source src; msg is what str() gives
ExcBatch(src) == [type |-> "exc", products |-> <<>>, msg |-> src]

\* scraper.search(enhanced) as run_one sees it
scraper_search(src, o) ==
    CASE o = "products" -> ListBatch(page_products(src))
      [] o = "exhausted" -> ListBatch(<<>>)
      [] o = "raises" -> ExcBatch(src)

\* a parse that takes a query that does not compile as one plain base query
parse_fallback(r) ==
    [ok |-> TRUE, base_queries |-> IF r.compiles THEN r.plan ELSE <<"q1">>]

\* QueryPlanner.parse(raw_query): the plan, or ValueError
parse(r) ==
    IF r.compiles
    THEN [ok |-> TRUE, base_queries |-> r.plan]
    ELSE [ok |-> FALSE, base_queries |-> <<>>]

\* one scraper object for all tasks
shared_scraper(ts) == 1

\* scraper_cls() in run_one: an object no task has yet
new_scraper(ts) ==
    1 + Cardinality({i \in DOMAIN ts : ts[i].scraper # 0})

\* a wait that ends with the first finished task
gather_done_any(ts) == \E i \in DOMAIN ts : ts[i].state = "done"

\* await asyncio.gather(*tasks, return_exceptions=True) returns
gather_done(ts) == \A i \in DOMAIN ts : ts[i].state = "done"

\* the loop over batches, leaving at the first exception
collect_until_error(ts) ==
    LET excs == {i \in DOMAIN ts : ts[i].batch.type = "exc"}
        stop == IF excs = {} THEN Len(ts) + 1
                ELSE CHOOSE i \in excs : \A j \in excs : i <= j
        IsExc(t) == t.batch.type = "exc"
        failed == SelectSeq(SubSeq(ts, 1, Min(stop, Len(ts))), IsExc)
    IN [products |-> Concat([i \in 1..(stop - 1) |-> ts[i].batch.products]),
        errors |-> [i \in DOMAIN failed |-> failed[i].batch.msg]]

\* the loop over batches at the end of _run_scrapers
collect(ts) ==
    LET IsExc(t) == t.batch.type = "exc"
        failed == SelectSeq(ts, IsExc)
    IN [products |-> Concat([i \in DOMAIN ts |->
                               IF ts[i].batch.type = "list"
                               THEN ts[i].batch.products ELSE <<>>]),
        errors |-> [i \in DOMAIN failed |-> failed[i].batch.msg]]

\* ProductValidator.validate: products with a blank title or no price are dropped
is_valid(p) == p # "n0"

validate(ps) ==
    LET kept == SelectSeq(ps, is_valid)
    IN [valid |-> kept, dropped |-> Len(ps) - Len(kept)]

\* the base queries of plan that would miss the cache es, as a number
would_miss(es, r) ==
    Cardinality({i \in DOMAIN r.plan :
                   ~first_match(es, r.plan[i], r.negs, Range(r.sources)).hit})

(* ------------------------------------------------------------------ *)
(* query_parser: strings are sequences of characters                    *)
(* ------------------------------------------------------------------ *)
\* the characters of the queries and titles considered
Letters == {"a", "b", "c", "d", "n", "o", "r", "A", "B", "C", "D", "N", "O", "R"}

Alphabet == Letters \cup {" ", "\"", "(", ")", "-", ";"}

\* \w of the regular expressions
WordChars == Letters

\* [^\s()"] of the regular expressions
BareChars == Alphabet \ {" ", "\"", "(", ")"}

lower_char(c) ==
    CASE c = "A" -> "a" [] c = "B" -> "b" [] c = "C" -> "c" [] c = "D" -> "d"
      [] c = "N" -> "n" [] c = "O" -> "o" [] c = "R" -> "r" [] c = "T" -> "t"
      [] c = "U" -> "u" [] OTHER -> c

upper_char(c) ==
    CASE c = "a" -> "A" [] c = "b" -> "B" [] c = "c" -> "C" [] c = "d" -> "D"
      [] c = "n" -> "N" [] c = "o" -> "O" [] c = "r" -> "R" [] OTHER -> c

\* str.lower and str.upper
lower(str) == [i \in DOMAIN str |-> lower_char(str[i])]

upper(str) == [i \in DOMAIN str |-> upper_char(str[i])]

\* sub in str
contains(str, sub) ==
    \E i \in 1..(Len(str) - Len(sub) + 1) : SubSeq(str, i, i + Len(sub) - 1) = sub

\* sep.join(parts)
RECURSIVE join(_, _)
join(parts, sep) ==
    IF parts = <<>> THEN <<>>
    ELSE IF Len(parts) = 1 THEN parts[1]
    ELSE parts[1] \o sep \o join(Tail(parts), sep)

SetMin(S) == CHOOSE x \in S : \A y \in S : x <= y

\* the last position of the run of characters of the set S that starts at i
run_end(str, i, S) ==
    LET stops == {j \in i..Len(str) : str[j] \notin S}
    IN IF stops = {} THEN Len(str) ELSE SetMin(stops) - 1

Token(t, v) == [type |-> t, value |-> v]

\* a bare word of _TOKEN_RE: AND and OR in any case are operators
word_token(word) ==
    IF upper(word) = <<"A", "N", "D">> THEN Token("AND", <<"A", "N", "D">>)
    ELSE IF upper(word) = <<"O", "R">> THEN Token("OR", <<"O", "R">>)
    ELSE Token("WORD", word)

\* _TOKEN_RE.finditer from position i on: the alternatives in their order; a
\* character that starts no alternative (white space, a quote that is not
\* closed) is passed over
RECURSIVE scan(_, _)
scan(str, i) ==
    IF i > Len(str) THEN <<>>
    ELSE IF str[i] = "\""
    THEN LET closes == {j \in (i + 1)..Len(str) : str[j] = "\""}
         IN IF closes = {} THEN scan(str, i + 1)
            ELSE <<Token("PHRASE", SubSeq(str, i + 1, SetMin(closes) - 1))>>
                 \o scan(str, SetMin(closes) + 1)
    ELSE IF str[i] = "(" THEN <<Token("LPAREN", <<"(">>)>> \o scan(str, i + 1)
    ELSE IF str[i] = ")" THEN <<Token("RPAREN", <<")">>)>> \o scan(str, i + 1)
    ELSE IF str[i] = "-" /\ i < Len(str) /\ str[i + 1] \in WordChars
    THEN LET j == run_end(str, i + 1, WordChars)
         IN <<Token("NEGATION", SubSeq(str, i + 1, j))>> \o scan(str, j + 1)
    ELSE IF str[i] \in BareChars
    THEN LET j == run_end(str, i, BareChars)
         IN <<word_token(SubSeq(str, i, j))>> \o scan(str, j + 1)
    ELSE scan(str, i + 1)

\* tokenize(raw)
tokenize(str) == scan(str, 1)

\* AST nodes: TermNode and PhraseNode have a value, AndNode and OrNode children
Leaf(t, v) == [type |-> t, value |-> v, children |-> <<>>]

Branch(t, ch) == [type |-> t, value |-> <<>>, children |-> ch]

NoNode == Leaf("none", <<>>)

\* what a method of _Parser gives: the node and the new _pos, or the exception
Parsed(node, pos) == [ok |-> TRUE, err |-> "", node |-> node, pos |-> pos]

Raised(e) == [ok |-> FALSE, err |-> e, node |-> NoNode, pos |-> 0]

\* _Parser._peek with _pos = pos (positions count from 1 here)
peek(ts, pos) == IF pos <= Len(ts) THEN ts[pos] ELSE Token("NONE", <<>>)

RECURSIVE parse_expr(_, _), parse_and_expr(_, _), parse_unary(_, _)
RECURSIVE or_rest(_, _, _), and_rest(_, _, _)

\* _parse_unary that reads self._tokens[self._pos] without looking first
parse_unary_unchecked(ts, pos) ==
    IF pos > Len(ts) THEN Raised("IndexError")
    ELSE LET tok == ts[pos] IN
         IF tok.type = "PHRASE" THEN Parsed(Leaf("phrase", tok.value), pos + 1)
         ELSE IF tok.type = "WORD" THEN Parsed(Leaf("term", tok.value), pos + 1)
         ELSE IF tok.type = "LPAREN"
         THEN LET r == parse_expr(ts, pos + 1) IN
              IF ~r.ok THEN r
              ELSE IF peek(ts, r.pos).type = "RPAREN" THEN Parsed(r.node, r.pos + 1)
              ELSE Raised("ValueError")
         ELSE Raised("ValueError")

\* _Parser._parse_unary: unary -> PHRASE | WORD | LPAREN expr RPAREN
parse_unary(ts, pos) ==
    LET tok == peek(ts, pos) IN
    IF tok.type = "NONE" THEN Raised("ValueError")
    ELSE IF tok.type = "PHRASE" THEN Parsed(Leaf("phrase", tok.value), pos + 1)
    ELSE IF tok.type = "WORD" THEN Parsed(Leaf("term", tok.value), pos + 1)
    ELSE IF tok.type = "LPAREN"
    THEN LET r == parse_expr(ts, pos + 1) IN
         IF ~r.ok THEN r
         ELSE IF peek(ts, r.pos).type = "RPAREN" THEN Parsed(r.node, r.pos + 1)
         ELSE Raised("ValueError")
    ELSE Raised("ValueError")

\* the loop of _parse_and_expr that returns an AndNode for one child too
and_rest_always_node(ts, pos, children) ==
    LET tok == peek(ts, pos) IN
    IF tok.type = "AND"
    THEN LET r == parse_unary(ts, pos + 1) IN
         IF r.ok THEN and_rest(ts, r.pos, Append(children, r.node)) ELSE r
    ELSE IF tok.type \in {"WORD", "PHRASE", "LPAREN"}
    THEN LET r == parse_unary(ts, pos) IN
         IF r.ok THEN and_rest(ts, r.pos, Append(children, r.node)) ELSE r
    ELSE Parsed(Branch("and", children), pos)

\* the while loop of _parse_and_expr, with the children read so far
and_rest(ts, pos, children) ==
    LET tok == peek(ts, pos) IN
    IF tok.type = "AND"
    THEN LET r == parse_unary(ts, pos + 1) IN
         IF r.ok THEN and_rest(ts, r.pos, Append(children, r.node)) ELSE r
    ELSE IF tok.type \in {"WORD", "PHRASE", "LPAREN"}
    THEN LET r == parse_unary(ts, pos) IN
         IF r.ok THEN and_rest(ts, r.pos, Append(children, r.node)) ELSE r
    ELSE Parsed(IF Len(children) = 1 THEN children[1] ELSE Branch("and", children), pos)

\* _Parser._parse_and_expr: and_expr -> unary (AND? unary)*
parse_and_expr(ts, pos) ==
    LET left == parse_unary(ts, pos) IN
    IF left.ok THEN and_rest(ts, left.pos, <<left.node>>) ELSE left

\* the while loop of parse_expr, with the children read so far
or_rest(ts, pos, children) ==
    IF peek(ts, pos).type = "OR"
    THEN LET r == parse_and_expr(ts, pos + 1) IN
         IF r.ok THEN or_rest(ts, r.pos, Append(children, r.node)) ELSE r
    ELSE Parsed(IF Len(children) = 1 THEN children[1] ELSE Branch("or", children), pos)

\* _Parser.parse_expr: expr -> and_expr (OR and_expr)*
parse_expr(ts, pos) ==
    LET left == parse_and_expr(ts, pos) IN
    IF left.ok THEN or_rest(ts, left.pos, <<left.node>>) ELSE left

\* the loops of the AndNode branch of _to_dnf: each conjunction so far with
\* each conjunction of the next child
cross(product, child_dnf) ==
    Concat([i \in DOMAIN product |->
              [j \in DOMAIN child_dnf |-> product[i] \o child_dnf[j]]])

RECURSIVE and_product(_, _)
and_product(product, child_dnfs) ==
    IF child_dnfs = <<>> THEN product
    ELSE and_product(cross(product, Head(child_dnfs)), Tail(child_dnfs))

\* _to_dnf that treats an AndNode as it treats an OrNode
RECURSIVE to_dnf_flat(_)
to_dnf_flat(node) ==
    IF node.type \in {"term", "phrase"} THEN <<<<node>>>>
    ELSE Concat([i \in DOMAIN node.children |-> to_dnf_flat(node.children[i])])

\* _to_dnf: the conjunctions (lists of leaves) of the disjunctive normal form
RECURSIVE to_dnf(_)
to_dnf(node) ==
    IF node.type \in {"term", "phrase"} THEN <<<<node>>>>
    ELSE IF node.type = "or"
    THEN Concat([i \in DOMAIN node.children |-> to_dnf(node.children[i])])
    ELSE and_product(<<<<>>>>, [i \in DOMAIN node.children |-> to_dnf(node.children[i])])

\* _conjunction_to_query
conjunction_to_query(conjunction) ==
    join([i \in DOMAIN conjunction |-> conjunction[i].value], <<" ">>)

\* local_evaluate(text, node)
RECURSIVE local_evaluate(_, _)
local_evaluate(text, node) ==
    IF node.type \in {"term", "phrase"} THEN contains(lower(text), lower(node.value))
    ELSE IF node.type = "and"
    THEN \A i \in DOMAIN node.children : local_evaluate(text, node.children[i])
    ELSE \E i \in DOMAIN node.children : local_evaluate(text, node.children[i])

NoVerdict == [called |-> FALSE, text |-> <<>>, accepted |-> FALSE]

NoPlan == [ok |-> FALSE, err |-> "none", ast |-> NoNode, base_queries |-> <<>>,
           global_negatives |-> {}]

PlanError(e) == [ok |-> FALSE, err |-> e, ast |-> NoNode, base_queries |-> <<>>,
                 global_negatives |-> {}]

\* QueryPlanner.parse(raw_query): the QueryPlan, or the exception
QueryPlanner_parse(raw_query) ==
    LET tokens == tokenize(raw_query)
        IsNegation(tok) == tok.type = "NEGATION"
        IsExpr(tok) == tok.type # "NEGATION"
        negs == SelectSeq(tokens, IsNegation)
        expr_tokens == SelectSeq(tokens, IsExpr)
        r == parse_expr(expr_tokens, 1)
        dnf == to_dnf(r.node)
    IN IF expr_tokens = <<>> THEN PlanError("ValueError")
       ELSE IF ~r.ok THEN PlanError(r.err)
       ELSE IF r.pos <= Len(expr_tokens) THEN PlanError("ValueError")
       ELSE [ok |-> TRUE, err |-> "",
             ast |-> r.node,
             base_queries |-> [i \in DOMAIN dnf |-> conjunction_to_query(dnf[i])],
             global_negatives |-> {negs[i].value : i \in DOMAIN negs}]

\* the pieces raw queries are made of, to be joined with blanks
Lexemes == {<<"a">>,
             <<"b">>,
             <<"O", "R">>,
             <<"a", "n", "d">>,
             <<"(">>,
             <<")">>,
             <<"-", "b">>,
             <<"\"", "a", " ", "b", "\"">>,
             <<"\"", "o", "r", "\"">>,
             <<"\"">>}

\* the raw queries: every sequence of at most MaxLexemes pieces, and some
\* longer ones
RECURSIVE LexemeSeqs(_)
LexemeSeqs(n) ==
    IF n = 0 THEN {<<>>}
    ELSE LexemeSeqs(n - 1)
         \cup {Append(q, x) : q \in {p \in LexemeSeqs(n - 1) : Len(p) = n - 1}, x \in Lexemes}

QABC == <<"a", " ", "A", "N", "D", " ", "(", "b", " ", "O", "R", " ", "c", ")">>

QNested == <<"(", "(", "a", ")", ")", " ", "O", "R", " ", "(", "b", ")">>

LongQueries == {QABC, QNested,
                <<"(", "a", " ", "O", "R", " ", "b", ")", " ", "(", "c", " ", "O", "R", " ", "d", ")">>}

RawQueries == {join(q, <<" ">>) : q \in LexemeSeqs(MaxLexemes)} \cup LongQueries

\* product titles and other texts the local evaluator is applied to
Texts == {<<>>,
          <<"a">>,
          <<"b">>,
          <<"a", " ", "b">>,
          <<"A", " ", "C">>,
          <<"b", " ", "a", " ", "c">>,
          <<"b", " ", "c", " ", "d">>,
          <<"a", " ", "d">>}

(* ------------------------------------------------------------------ *)
(* ProductDeduplicator                                                  *)
(* ------------------------------------------------------------------ *)
\* [a-z0-9\s] of _normalise_title, as far as the titles here use it
TitleChars == {"a", "b", "c", "d", "n", "o", "r", "t", "u", " "}

\* the characters of titles and urls other than the blank
NonBlank == (Alphabet \cup TitleChars \cup {"!", "/", "?", "#", "T", "U"}) \ {" "}

\* str.split(): the words between the blanks
RECURSIVE split(_)
split(str) ==
    IF str = <<>> THEN <<>>
    ELSE IF str[1] = " " THEN split(Tail(str))
    ELSE LET j == run_end(str, 1, NonBlank)
         IN <<SubSeq(str, 1, j)>> \o split(SubSeq(str, j + 1, Len(str)))

\* str.rstrip("/")
RECURSIVE rstrip_slash(_)
rstrip_slash(str) ==
    IF str # <<>> /\ str[Len(str)] = "/" THEN rstrip_slash(SubSeq(str, 1, Len(str) - 1))
    ELSE str

\* ProductDeduplicator._normalise_url: without ?... and #..., without
\* trailing slashes, in lower case
normalise_url(url) ==
    LET marks == {i \in DOMAIN url : url[i] \in {"?", "#"}}
        cleaned == IF marks = {} THEN url ELSE SubSeq(url, 1, SetMin(marks) - 1)
    IN IF url = <<>> THEN <<>> ELSE lower(rstrip_slash(cleaned))

\* ProductDeduplicator._normalise_title: lower case, letters, digits and
\* blanks only, one blank between words
normalise_title(title) ==
    LET IsKept(c) == c \in TitleChars
    IN join(split(SelectSeq(lower(title), IsKept)), <<" ">>)

\* the key of the same-source title match
title_key(p) == <<p.source, normalise_title(p.title)>>

\* seen_urls[key] / seen_titles[key] of a dict kept as a set of <<key, index>>
index_of(seen, key) == (CHOOSE e \in seen : e[1] = key)[2]

has_key(seen, key) == \E e \in seen : e[1] = key

\* one pass of the for loop of deduplicate over products[i..]
RECURSIVE dedup_loop(_, _, _)
dedup_loop(products, i, st) ==
    IF i > Len(products) THEN st
    ELSE LET product == products[i]
             norm_url == normalise_url(product.url)
             key == title_key(product)
             Cheaper(idx) == product.price > 0 /\ product.price < st.kept[idx].price
             Replace(idx) == IF Cheaper(idx) THEN [st.kept EXCEPT ![idx] = product]
                             ELSE st.kept
         IN IF norm_url # <<>> /\ has_key(st.seen_urls, norm_url)
            THEN dedup_loop(products, i + 1,
                            [st EXCEPT !.kept = Replace(index_of(st.seen_urls, norm_url)),
                                       !.removed = @ + 1])
            ELSE IF has_key(st.seen_titles, key)
            THEN dedup_loop(products, i + 1,
                            [st EXCEPT !.kept = Replace(index_of(st.seen_titles, key)),
                                       !.removed = @ + 1])
            ELSE dedup_loop(products, i + 1,
                            [seen_urls |-> IF norm_url # <<>>
                                           THEN st.seen_urls \cup {<<norm_url, Len(st.kept) + 1>>}
                                           ELSE st.seen_urls,
                             seen_titles |-> st.seen_titles \cup {<<key, Len(st.kept) + 1>>},
                             kept |-> Append(st.kept, product),
                             removed |-> st.removed])

\* ProductDeduplicator.deduplicate(products): the kept list and the removed count
deduplicate(products) ==
    LET st == dedup_loop(products, 1,
                         [seen_urls |-> {}, seen_titles |-> {}, kept |-> <<>>, removed |-> 0])
    IN [called |-> TRUE, kept |-> st.kept, removed |-> st.removed]

NotRun == [called |-> FALSE, kept |-> <<>>, removed |-> 0]

\* the products the deduplicator is tried on
DedupUrls == {<<>>, <<"u">>, <<"U", "/", "?", "a">>}

DedupTitles == {<<"t">>, <<"T", " ", "!">>}

\* price 0 is the price of a product whose price is not known
DedupPrices == {0, 1, 2}

DedupProducts ==
    {[title |-> t, price |-> pr, url |-> u, source |-> "noon"] :
        t \in DedupTitles, pr \in DedupPrices, u \in DedupUrls}
    \cup {[title |-> <<"t">>, price |-> pr, url |-> u, source |-> "amazon"] :
             pr \in DedupPrices, u \in {<<>>, <<"u">>}}

RECURSIVE ProductSeqs(_)
ProductSeqs(n) ==
    IF n = 0 THEN {<<>>}
    ELSE ProductSeqs(n - 1)
         \cup {Append(l, x) : l \in {k \in ProductSeqs(n - 1) : Len(k) = n - 1},
                              x \in DedupProducts}

(* ------------------------------------------------------------------ *)
(* multi_search: routing, validation and the filters on real titles     *)
(* ------------------------------------------------------------------ *)
\* \bWORD\b found in str, in any case: the letters of word at i.., with no
\* word character before or after them
has_word(str, word) ==
    \E i \in 1..(Len(str) - Len(word) + 1) :
        /\ lower(SubSeq(str, i, i + Len(word) - 1)) = word
        /\ i = 1 \/ str[i - 1] \notin WordChars
        /\ i + Len(word) > Len(str) \/ str[i + Len(word)] \notin WordChars

\* a pattern that finds and / or inside longer words too
has_boolean_syntax_anywhere(raw_query) ==
    \/ contains(lower(raw_query), <<"a", "n", "d">>)
    \/ contains(lower(raw_query), <<"o", "r">>)
    \/ \E i \in DOMAIN raw_query : raw_query[i] \in {"(", "\"", ")"}

\* has_boolean_syntax: _BOOLEAN_PATTERN.search(raw_query)
has_boolean_syntax(raw_query) ==
    \/ has_word(raw_query, <<"a", "n", "d">>)
    \/ has_word(raw_query, <<"o", "r">>)
    \/ \E i \in DOMAIN raw_query : raw_query[i] \in {"(", "\"", ")"}

\* str.strip()
RECURSIVE strip(_)
strip(str) ==
    IF str = <<>> THEN str
    ELSE IF str[1] = " " THEN strip(Tail(str))
    ELSE IF str[Len(str)] = " " THEN strip(SubSeq(str, 1, Len(str) - 1))
    ELSE str

\* raw_query.split(";")
RECURSIVE split_semicolon(_)
split_semicolon(str) ==
    LET marks == {i \in DOMAIN str : str[i] = ";"}
    IN IF marks = {} THEN <<str>>
       ELSE <<SubSeq(str, 1, SetMin(marks) - 1)>>
            \o split_semicolon(SubSeq(str, SetMin(marks) + 1, Len(str)))

\* the list of queries of multi_search without the test that drops the
\* blank segments
queries_of_keep_blank(raw_query) ==
    LET parts == split_semicolon(raw_query)
    IN [i \in DOMAIN parts |-> strip(parts[i])]

\* queries = [q.strip() for q in raw_query.split(";") if q.strip()]
queries_of(raw_query) ==
    LET parts == split_semicolon(raw_query)
        stripped == [i \in DOMAIN parts |-> strip(parts[i])]
        NotEmpty(q) == q # <<>>
    IN SelectSeq(stripped, NotEmpty)

\* a validator that looks at the titles only
ProductValidator_validate_titles_only(products) ==
    LET Ok(p) == strip(p.title) # <<>>
        kept == SelectSeq(products, Ok)
    IN [valid |-> kept, dropped |-> Len(products) - Len(kept)]

\* ProductValidator.validate on products with title and price
ProductValidator_validate(products) ==
    LET Ok(p) == strip(p.title) # <<>> /\ p.price > 0
        kept == SelectSeq(products, Ok)
    IN [valid |-> kept, dropped |-> Len(products) - Len(kept)]

\* the title holds one of the keywords, in any case
has_keyword(p, keywords) ==
    \E k \in DOMAIN keywords : contains(lower(p.title), lower(keywords[k]))

\* ProductFilter.filter_by_keywords
filter_by_keywords(products, negative_keywords) ==
    LET Keep(p) == ~has_keyword(p, negative_keywords)
        kept == SelectSeq(products, Keep)
    IN IF negative_keywords = <<>>
       THEN [kept |-> products, excluded |-> 0]
       ELSE [kept |-> kept, excluded |-> Len(products) - Len(kept)]

\* an AST filter that lets every product through
ast_filter_off(products, ast) == products

\* ast_filtered = [p for p in all_validated if local_evaluate(p.title, plan.ast)]
ast_filter(products, ast) ==
    LET Keep(p) == local_evaluate(p.title, ast) IN SelectSeq(products, Keep)

\* an exclusion tally that leaves the AST removals out
excluded_total_keywords_only(keyword_removed, ast_removed) == keyword_removed

\* result.excluded_count: the keyword removals, then += ast_removed
excluded_total(keyword_removed, ast_removed) == keyword_removed + ast_removed

\* sorted(...) of a set of strings, as a list in some fixed order
RECURSIVE sorted(_)
sorted(S) ==
    IF S = {} THEN <<>>
    ELSE LET x == CHOOSE y \in S : TRUE IN <<x>> \o sorted(S \ {x})

\* the negatives of the caller alone
all_negatives_ui_only(global_negatives, ui_negatives) == Range(ui_negatives)

\* all_negatives = plan.global_negatives | set(ui_negatives)
all_negatives(global_negatives, ui_negatives) ==
    global_negatives \cup Range(ui_negatives)

\* SearchResult(query=...)
SearchResult(query) ==
    [query |-> query, products |-> <<>>, excluded_count |-> 0,
     deduplicated_count |-> 0, invalid_count |-> 0, total_before_filter |-> 0,
     cache_hits |-> 0, errors |-> <<>>]

\* the source list of the calls considered here
MultiSources == {"noon"}

\* SearchOrchestrator.search(query, sources, keywords) on the cache es, where
\* _run_scrapers would return got: the SearchResult, the validated candidates
\* it was made from, and what the call did
search(es, query, keywords, got, t) ==
    LET cached == first_match(evict_expired(es, t), query, Range(keywords), MultiSources)
        checked == ProductValidator_validate(IF cached.hit THEN cached.results
                                             ELSE got.products)
        filtered == filter_by_keywords(checked.valid, keywords)
        deduped == deduplicate(filtered.kept)
    IN [result |-> [query |-> query,
                    products |-> deduped.kept,
                    excluded_count |-> filtered.excluded,
                    deduplicated_count |-> deduped.removed,
                    invalid_count |-> checked.dropped,
                    total_before_filter |-> Len(checked.valid),
                    cache_hits |-> IF cached.hit THEN 1 ELSE 0,
                    errors |-> IF cached.hit THEN <<>> ELSE got.errors],
        candidates |-> checked.valid,
        fetched |-> ~cached.hit,
        dropped |-> IF cached.hit THEN 0 ELSE checked.dropped,
        entries |-> IF cached.hit THEN evict_expired(es, t)
                    ELSE store(evict_expired(es, t), query, Range(keywords),
                               MultiSources, checked.valid, t)]

\* the products of the calls considered here
P_ab == [title |-> <<"a", " ", "b">>, price |-> 2, url |-> <<"u">>, source |-> "noon"]
P_Ac == [title |-> <<"A", " ", "c">>, price |-> 1, url |-> <<"v">>, source |-> "noon"]
P_bc == [title |-> <<"b", " ", "c">>, price |-> 1, url |-> <<>>, source |-> "noon"]
P_ab_cheap == [title |-> <<"a", " ", "b">>, price |-> 1, url |-> <<"w">>, source |-> "noon"]
P_unpriced == [title |-> <<"a">>, price |-> 0, url |-> <<"x">>, source |-> "noon"]

\* what _run_scrapers can return for a query: products and error strings
Batches ==
    {[products |-> <<>>, errors |-> <<"noon">>],
     [products |-> <<P_ab, P_Ac, P_unpriced>>, errors |-> <<>>],
     [products |-> <<P_bc, P_ab_cheap, P_ab>>, errors |-> <<>>]}

\* negative_keywords of the caller
CallerNegatives == {<<>>, <<<<"C">>>>}

\* the caches a call can find: empty, or with the products of an earlier
\* search for a, stored after validation
PrefilledCaches ==
    {<<>>,
     <<[base_query |-> <<"a">>, negative_terms |-> {}, source_ids |-> MultiSources,
        results |-> <<P_ab, P_bc>>, timestamp |-> 1]>>}

\* the pieces the raw queries of multi_search are made of, written one after
\* the other
Pieces == {<<"a">>,
           <<"b">>,
           <<";">>,
           <<" ">>,
           <<"o", "r">>,
           <<"-", "b">>}

RECURSIVE PieceSeqs(_)
PieceSeqs(n) ==
    IF n = 0 THEN {<<>>}
    ELSE PieceSeqs(n - 1)
         \cup {Append(q, x) : q \in {k \in PieceSeqs(n - 1) : Len(k) = n - 1}, x \in Pieces}

\* some longer raw queries, with the boolean syntax that compiles
LongMultiQueries ==
    {<<"a", " ", "o", "r", " ", "b">>,
     <<"a", " ", "o", "r", " ", "b", ";", "c">>,
     <<"a", " ", "o", "r", " ", "c", " ", "-", "b">>,
     <<"a", " ", "a", "n", "d", " ", "b">>,
     <<"A", " ", "A", "N", "D", " ", "b", " ", "-", "c">>,
     <<"(", "a", ")">>,
     <<"a", ";", "(", "b">>,
     <<"\"", "a", " ", "b", "\"">>,
     <<"a", " ", "O", "R", " ", "b", " ", "-", "c">>}

MultiQueries == {Concat(q) : q \in PieceSeqs(MaxPieces)} \cup LongMultiQueries

(* ------------------------------------------------------------------ *)
(* Initial state                                                       *)
(* ------------------------------------------------------------------ *)
NoLookup == [called |-> FALSE]

FetchInit ==
    /\ kind \in Kinds
    /\ fs = InitFetchState
    /\ pc = "idle"
    /\ call = "none"
    /\ attempt = 0
    /\ primaryReqs = 0
    /\ fallbackReqs = 0
    /\ result = "none"
    /\ probe = FALSE
    /\ freshFails = 0
    /\ lastOutcome = "none"

CacheInit ==
    /\ entries = <<>>
    /\ lookup = NoLookup

CopyInit ==
    /\ heap = <<>>
    /\ entryObj = <<>>
    /\ held = {}

OrchInit ==
    /\ opc = "idle"
    /\ req = NoRequest
    /\ bqi = 0
    /\ tasks = <<>>
    /\ res = NewResult
    /\ scraped = <<>>
    /\ all_raw = <<>>
    /\ io = NoIO
    /\ missed = {}

NoCall == [route |-> "none", raw_query |-> <<>>, keywords |-> <<>>, plan |-> NoPlan]

NoOutcome == [returned |-> FALSE, raised |-> "no", value |-> SearchResult(<<>>)]

NothingSeen == [served |-> <<>>, fetches |-> 0, dropped |-> 0, candidates |-> <<>>,
                subs |-> <<>>]

MultiInit ==
    /\ m_call = NoCall
    /\ m_queue = <<>>
    /\ m_acc = [all |-> <<>>, result |-> SearchResult(<<>>)]
    /\ m_out = NoOutcome
    /\ m_seen = NothingSeen

QueryInit ==
    /\ rawq = <<>>
    /\ qplan = NoPlan
    /\ verdict = NoVerdict
    /\ replan = NoPlan
    /\ dd_in = <<>>
    /\ dd_out = NotRun
    /\ dd_again = NotRun
    /\ MultiInit

Init ==
    /\ now = 1
    /\ FetchInit
    /\ CacheInit
    /\ CopyInit
    /\ OrchInit
    /\ QueryInit

(* ------------------------------------------------------------------ *)
(* The clock                                                           *)
(* ------------------------------------------------------------------ *)
Tick ==
    /\ now < MaxTime
    /\ now' = now + 1
    /\ UNCHANGED <<fetchVars, cacheVars, copyVars, orchVars, queryVars>>

(* ------------------------------------------------------------------ *)
(* Calls of the fetch layer                                            *)
(* ------------------------------------------------------------------ *)
\* The caller enters _fetch_get, _fetch_post or _get_page.
Invoke(c) ==
    /\ pc = "idle"
    /\ fs.consecutive_failures < MaxFailures
    /\ call' = c
    /\ pc' = "entry"
    /\ attempt' = 0
    /\ primaryReqs' = 0
    /\ fallbackReqs' = 0
    /\ result' = "pending"
    /\ probe' = FALSE
    /\ lastOutcome' = "none"
    /\ UNCHANGED <<kind, fs, now, freshFails, cacheVars, copyVars, orchVars, queryVars>>

\* The call returns r.
Return(r) ==
    /\ pc' = "idle"
    /\ result' = r

\* First statement of the call: the breaker check.
\*   _fetch_get/_fetch_post: if self._check_circuit(): return None
\*   BaseScraper._get_page:  if self._check_circuit(): return None; self._wait()
\*   IherbScraper._get_page: if self._circuit_open: return None; self._wait()
Entry ==
    /\ pc = "entry"
    /\ IF call = "get_page" /\ kind = "iherb"
       THEN /\ fs' = fs
            /\ probe' = probe
            /\ IF fs.circuit_open
               THEN Return("None")
               ELSE pc' = "fetch_primary" /\ result' = result
       ELSE LET c == check_circuit(fs, now) IN
            /\ fs' = c.st
            /\ probe' = (fs.circuit_open /\ ~c.blocked)
            /\ IF c.blocked
               THEN Return("None")
               ELSE /\ pc' = IF call = "get_page" THEN "fetch" ELSE "loop"
                    /\ result' = result
    /\ UNCHANGED <<kind, now, call, attempt, primaryReqs, fallbackReqs, freshFails, lastOutcome,
                   cacheVars, copyVars, orchVars, queryVars>>

\* IherbScraper._fetch_primary: if self._circuit_open: return None
FetchPrimary ==
    /\ pc = "fetch_primary"
    /\ pc' = IF fs.circuit_open THEN "fallback" ELSE "fetch"
    /\ UNCHANGED <<kind, fs, now, call, attempt, primaryReqs, fallbackReqs, result, probe,
                   freshFails, lastOutcome, cacheVars, copyVars, orchVars, queryVars>>

\* _fetch_get as called by a page fetch: its own breaker check.  A blocked
\* fetch returns None to the page fetch, which goes on with the fallback.
FetchEntry ==
    /\ pc = "fetch"
    /\ LET c == check_circuit(fs, now) IN
       /\ fs' = c.st
       /\ probe' = (probe \/ (fs.circuit_open /\ ~c.blocked))
       /\ pc' = IF c.blocked THEN "fallback" ELSE "loop"
    /\ UNCHANGED <<kind, now, call, attempt, primaryReqs, fallbackReqs, result,
                   freshFails, lastOutcome, cacheVars, copyVars, orchVars, queryVars>>

\* One iteration of the retry loop: a request is sent and comes back with o.
FetchAttempt(o) ==
    /\ pc = "loop"
    /\ attempt < MAX_RETRIES
    /\ primaryReqs' = primaryReqs + 1
    /\ lastOutcome' = o
    /\ LET a == fetch_attempt(fs, o) IN
       /\ fs' = a.st
       /\ CASE a.ends = "return" ->
                 /\ Return(IF call = "get_page" THEN "Soup" ELSE "Response")
                 /\ attempt' = attempt
                 /\ freshFails' = CIRCUIT_BREAKER_THRESHOLD + 1
            [] a.ends = "continue" ->
                 /\ attempt' = attempt + 1
                 /\ UNCHANGED <<pc, result, freshFails>>
            [] OTHER ->
                 /\ Return("Raised")
                 /\ UNCHANGED <<attempt, freshFails>>
    /\ UNCHANGED <<kind, now, call, fallbackReqs, probe, cacheVars, copyVars, orchVars, queryVars>>

\* The loop ran out of attempts: self._record_failure(); return None
FetchExhausted ==
    /\ pc = "loop"
    /\ attempt >= MAX_RETRIES
    /\ fs' = record_failure(fs, now)
    /\ freshFails' = Min(freshFails + 1, CIRCUIT_BREAKER_THRESHOLD + 1)
    /\ attempt' = 0
    /\ IF call = "get_page"
       THEN pc' = "fallback" /\ result' = result
       ELSE Return("None")
    /\ UNCHANGED <<kind, now, call, primaryReqs, fallbackReqs, probe, lastOutcome, cacheVars, copyVars, orchVars, queryVars>>

\* The fallback of a page fetch: one request of cloudscraper, which comes back
\* with o.  BaseScraper._get_page sends one request and takes any 200;
\* IherbScraper._fetch_cloudscraper loops.
FallbackAttempt(o) ==
    /\ pc = "fallback"
    /\ attempt < fallback_attempts(kind)
    /\ fallbackReqs' = fallbackReqs + 1
    /\ IF kind = "iherb"
       THEN LET a == cloudscraper_attempt(fs, o) IN
            /\ fs' = a.st
            /\ IF a.ends = "return"
               THEN Return("Soup") /\ attempt' = attempt
               ELSE attempt' = attempt + 1 /\ UNCHANGED <<pc, result>>
       ELSE LET a == page_fallback(fs, o) IN
            /\ fs' = a.st
            /\ attempt' = attempt
            /\ Return(IF a.ends = "return" THEN "Soup" ELSE "None")
    /\ UNCHANGED <<kind, now, call, primaryReqs, probe, freshFails, lastOutcome, cacheVars, copyVars, orchVars, queryVars>>

\* IherbScraper._fetch_cloudscraper ran out of attempts: return None
FallbackExhausted ==
    /\ pc = "fallback"
    /\ attempt >= fallback_attempts(kind)
    /\ Return("None")
    /\ UNCHANGED <<kind, fs, now, call, attempt, primaryReqs, fallbackReqs, probe,
                   freshFails, lastOutcome, cacheVars, copyVars, orchVars, queryVars>>

FetchNext ==
    \/ Tick
    \/ \E c \in Calls : Invoke(c)
    \/ Entry
    \/ FetchPrimary
    \/ FetchEntry
    \/ \E o \in Outcomes : FetchAttempt(o)
    \/ FetchExhausted
    \/ \E o \in Outcomes : FallbackAttempt(o)
    \/ FallbackExhausted

SpecFetch == Init /\ [][FetchNext]_vars

(* ------------------------------------------------------------------ *)
(* Calls of the cache                                                  *)
(* ------------------------------------------------------------------ *)
\* time passes while the cache is in use
CacheTick ==
    /\ now < MaxCacheTime
    /\ now' = now + 1
    /\ lookup' = NoLookup
    /\ UNCHANGED <<fetchVars, entries, copyVars, orchVars, queryVars>>

\* QueryCache.store
Store(q, negs, srcs, results) ==
    /\ Len(entries) < MaxEntries
    /\ entries' = store(entries, q, negs, srcs, results, now)
    /\ lookup' = NoLookup
    /\ UNCHANGED <<now, fetchVars, copyVars, orchVars, queryVars>>

\* QueryCache.find_subset_match
FindSubsetMatch(q, negs, srcs) ==
    LET kept == evict_expired(entries, now)
        m == first_match(kept, q, negs, srcs)
    IN /\ entries' = kept
       /\ lookup' = [called |-> TRUE,
                     base_query |-> q,
                     requested_negatives |-> negs,
                     source_ids |-> srcs,
                     hit |-> m.hit,
                     results |-> m.results,
                     oldest |-> IF entries = <<>> THEN 0 ELSE now - entries[1].timestamp]
       /\ UNCHANGED <<now, fetchVars, copyVars, orchVars, queryVars>>

\* QueryCache.clear
Clear ==
    /\ entries # <<>>
    /\ entries' = <<>>
    /\ lookup' = NoLookup
    /\ UNCHANGED <<now, fetchVars, copyVars, orchVars, queryVars>>

CacheNext ==
    \/ CacheTick
    \/ \E q \in Queries, negs \in NegativeSets, srcs \in SourceSets, results \in ProductLists :
          Store(q, negs, srcs, results)
    \/ \E negs \in NegativeSets : FindSubsetMatch(LookupQuery, negs, LookupSources)
    \/ Clear

\* the cache on its own: the fetcher is left as constructed
CacheSpecInit == Init /\ kind = "base"

SpecCache == CacheSpecInit /\ [][CacheNext]_vars

(* ------------------------------------------------------------------ *)
(* Calls of the cache, with the lists as objects                       *)
(* ------------------------------------------------------------------ *)
\* the caller builds a product list
CallerMakesList(items) ==
    /\ Len(heap) < MaxObjs
    /\ heap' = Append(heap, items)
    /\ held' = held \cup {Len(heap) + 1}
    /\ UNCHANGED <<now, fetchVars, cacheVars, entryObj, orchVars, queryVars>>

\* the caller changes a list it has a reference to
CallerMutates(o, op) ==
    /\ o \in held
    /\ op = "append" => Len(heap[o]) < MaxListLen
    /\ op \in {"remove", "replace"} => heap[o] # <<>>
    /\ heap' = [heap EXCEPT ![o] = mutate(heap[o], op)]
    /\ UNCHANGED <<now, fetchVars, cacheVars, entryObj, held, orchVars, queryVars>>

\* QueryCache.store(LookupQuery, negs, LookupSources, o): entries keeps the
\* content the list has at the call
StoreList(negs, o) ==
    /\ o \in held
    /\ Len(entries) < MaxEntries
    /\ Len(heap) < MaxObjs
    /\ LET c == stored_list(heap, o) IN
       /\ heap' = c.heap
       /\ entryObj' = Append(entryObj, c.obj)
    /\ entries' = store(entries, LookupQuery, negs, LookupSources, heap[o], now)
    /\ lookup' = NoLookup
    /\ UNCHANGED <<now, fetchVars, held, orchVars, queryVars>>

\* QueryCache.find_subset_match(LookupQuery, negs, LookupSources); the clock
\* stands still here, so that nothing expires
FindList(negs) ==
    /\ Len(heap) < MaxObjs
    /\ LET i == first_match_index(entries, LookupQuery, negs, LookupSources) IN
       IF i = 0
       THEN /\ lookup' = [called |-> TRUE, base_query |-> LookupQuery,
                          requested_negatives |-> negs, source_ids |-> LookupSources,
                          hit |-> FALSE, results |-> <<>>, oldest |-> 0]
            /\ UNCHANGED <<heap, held>>
       ELSE LET c == returned_list(heap, entryObj[i]) IN
            /\ heap' = c.heap
            /\ held' = held \cup {c.obj}
            /\ lookup' = [called |-> TRUE, base_query |-> LookupQuery,
                          requested_negatives |-> negs, source_ids |-> LookupSources,
                          hit |-> TRUE, results |-> c.heap[c.obj], oldest |-> 0]
    /\ UNCHANGED <<now, fetchVars, entries, entryObj, orchVars, queryVars>>

CopyNext ==
    \/ \E items \in ProductLists : CallerMakesList(items)
    \/ \E o \in 1..MaxObjs, op \in Mutations : CallerMutates(o, op)
    \/ \E negs \in {{}, {"x"}}, o \in 1..MaxObjs : StoreList(negs, o)
    \/ \E negs \in {{}, {"x"}} : FindList(negs)

SpecCopy == CacheSpecInit /\ [][CopyNext]_vars

(* ------------------------------------------------------------------ *)
(* SearchOrchestrator.search / execute_advanced_search                  *)
(* ------------------------------------------------------------------ *)
\* the clock moves while the orchestrator is idle or waits for its tasks; the
\* clock is read by the cache probe and by store only, so that a tick during
\* the wait is taken when the last task has finished
OrchTick ==
    /\ opc = "idle" \/ (opc = "gather" /\ gather_done(tasks))
    /\ now < MaxCacheTime
    /\ now' = now + 1
    /\ missed' = {m \in missed : now' - m.at < QUERY_CACHE_TTL}
    /\ UNCHANGED <<fetchVars, cacheVars, copyVars,
                   opc, req, bqi, tasks, res, scraped, all_raw, io, queryVars>>

\* query_cache.clear() between two requests
OrchClear ==
    /\ opc = "idle"
    /\ entries # <<>>
    /\ entries' = <<>>
    /\ missed' = {}
    /\ UNCHANGED <<now, fetchVars, lookup, copyVars,
                   opc, req, bqi, tasks, res, scraped, all_raw, io, queryVars>>

\* a caller awaits search or execute_advanced_search (multi_search routes to
\* one of them)
Submit(r) ==
    /\ opc = "idle"
    /\ Len(evict_expired(entries, now)) + would_miss(evict_expired(entries, now), r)
          <= MaxEntries
    /\ opc' = "start"
    /\ req' = r
    /\ bqi' = 0
    /\ tasks' = <<>>
    /\ res' = NewResult
    /\ scraped' = <<>>
    /\ all_raw' = <<>>
    /\ io' = NoIO
    /\ UNCHANGED <<now, fetchVars, cacheVars, copyVars, missed, queryVars>>

\* the head of the call: execute_advanced_search parses the raw query,
\* search has nothing to parse
Begin ==
    /\ opc = "start"
    /\ LET plan == IF req.kind = "advanced" THEN parse(req)
                   ELSE [ok |-> TRUE, base_queries |-> req.plan] IN
       IF plan.ok
       THEN /\ opc' = "lookup"
            /\ bqi' = 1
            /\ req' = [req EXCEPT !.plan = plan.base_queries]
            /\ res' = res
       ELSE /\ opc' = "raised"
            /\ res' = [res EXCEPT !.raised = "parse"]
            /\ UNCHANGED <<bqi, req>>
    /\ UNCHANGED <<now, fetchVars, cacheVars, copyVars,
                   tasks, scraped, all_raw, io, missed, queryVars>>

\* after a base query is served: the next one, or the end of the loop, where
\* the merged products are validated again and the result is returned
AfterBaseQuery(raw) ==
    IF bqi < Len(req.plan)
    THEN /\ opc' = "lookup"
         /\ bqi' = bqi + 1
         /\ res' = res
    ELSE /\ opc' = "done"
         /\ bqi' = bqi
         /\ res' = [res EXCEPT !.validated = validate(raw).valid]

\* the cache probe for the current base query; on a miss the run_one tasks
\* are created
Probe ==
    /\ opc = "lookup"
    /\ LET bq == req.plan[bqi]
           source_ids == Range(req.sources)
           kept == evict_expired(entries, now)
           cached == first_match(kept, bq, req.negs, source_ids)
       IN /\ entries' = kept
          /\ IF cached.hit
             THEN /\ all_raw' = all_raw \o cached.results
                  /\ IF bqi < Len(req.plan)
                     THEN /\ opc' = "lookup"
                          /\ bqi' = bqi + 1
                          /\ res' = [res EXCEPT !.cache_hits = @ + 1]
                     ELSE /\ opc' = "done"
                          /\ bqi' = bqi
                          /\ res' = [res EXCEPT !.cache_hits = @ + 1,
                                                !.validated = validate(all_raw').valid]
                  /\ io' = [io EXCEPT !.lookups = @ + 1]
                  /\ UNCHANGED <<tasks, missed>>
             ELSE /\ opc' = "gather"
                  /\ tasks' = [i \in DOMAIN req.sources |->
                                 [source |-> req.sources[i], state |-> "pending",
                                  scraper |-> 0, outcome |-> "none", batch |-> NoBatch]]
                  /\ io' = [io EXCEPT !.lookups = @ + 1,
                                      !.dispatched = @ + Len(req.sources)]
                  /\ missed' = missed \cup {[base_query |-> bq, negs |-> req.negs,
                                             source_ids |-> source_ids, at |-> now]}
                  /\ UNCHANGED <<bqi, res, all_raw>>
    /\ UNCHANGED <<now, fetchVars, lookup, copyVars, req, scraped, queryVars>>

\* run_one up to its await: the scraper class is loaded and instantiated
\* (ok), or that raises; the tasks start in the order of the sources
TaskStart(i, ok) ==
    /\ opc = "gather"
    /\ i \in DOMAIN tasks
    /\ tasks[i].state = "pending"
    /\ \A j \in 1..(i - 1) : tasks[j].state # "pending"
    /\ tasks' = [tasks EXCEPT ![i] =
                   IF ok
                   THEN [@ EXCEPT !.state = "running", !.scraper = new_scraper(tasks)]
                   ELSE [@ EXCEPT !.state = "done", !.batch = ExcBatch(tasks[i].source)]]
    /\ UNCHANGED <<now, fetchVars, cacheVars, copyVars,
                   opc, req, bqi, res, scraped, all_raw, io, missed, queryVars>>

\* scraper.search ends in its thread
TaskFinish(i, o) ==
    /\ opc = "gather"
    /\ i \in DOMAIN tasks
    /\ tasks[i].state = "running"
    /\ tasks' = [tasks EXCEPT ![i] =
                   [@ EXCEPT !.state = "done", !.outcome = o,
                             !.batch = scraper_search(tasks[i].source, o)]]
    /\ UNCHANGED <<now, fetchVars, cacheVars, copyVars,
                   opc, req, bqi, res, scraped, all_raw, io, missed, queryVars>>

\* gather returns: the batches are collected, the products validated and
\* stored in the cache
Collect ==
    /\ opc = "gather"
    /\ gather_done(tasks)
    /\ LET got == collect(tasks)
           checked == validate(got.products)
       IN /\ res' = [res EXCEPT !.errors = @ \o got.errors,
                                !.invalid_count = @ + checked.dropped]
          /\ scraped' = checked.valid
          /\ entries' = store(entries, req.plan[bqi], req.negs, Range(req.sources),
                              checked.valid, now)
    /\ opc' = "sink"
    /\ UNCHANGED <<now, fetchVars, lookup, copyVars,
                   req, bqi, tasks, all_raw, io, missed, queryVars>>

\* record_snapshots in its thread: it returns (ok) or raises, and what it
\* raises leaves the search
Sink(ok) ==
    /\ opc = "sink"
    /\ io' = [io EXCEPT !.sink_writes = @ + 1]
    /\ IF ok
       THEN /\ all_raw' = all_raw \o scraped
            /\ AfterBaseQuery(all_raw')
       ELSE /\ opc' = "raised"
            /\ res' = [res EXCEPT !.raised = "sink"]
            /\ UNCHANGED <<bqi, all_raw>>
    /\ tasks' = <<>>
    /\ scraped' = <<>>
    /\ UNCHANGED <<now, fetchVars, cacheVars, copyVars, req, missed, queryVars>>

\* the caller has the result or the exception
Done ==
    /\ opc \in {"done", "raised"}
    /\ opc' = "idle"
    /\ req' = NoRequest
    /\ bqi' = 0
    /\ tasks' = <<>>
    /\ res' = NewResult
    /\ scraped' = <<>>
    /\ all_raw' = <<>>
    /\ io' = NoIO
    /\ UNCHANGED <<now, fetchVars, cacheVars, copyVars, missed, queryVars>>

OrchNext ==
    \/ OrchTick
    \/ OrchClear
    \/ \E r \in Requests : Submit(r)
    \/ Begin
    \/ Probe
    \/ \E i \in 1..2, ok \in BOOLEAN : TaskStart(i, ok)
    \/ \E i \in 1..2, o \in SearchOutcomes : TaskFinish(i, o)
    \/ Collect
    \/ \E ok \in BOOLEAN : Sink(ok)
    \/ Done

SpecOrch == CacheSpecInit /\ [][OrchNext]_vars

(* ------------------------------------------------------------------ *)
(* The query compiler and the local evaluator                          *)
(* ------------------------------------------------------------------ *)
otherVars == <<now, fetchVars, cacheVars, copyVars, orchVars>>

\* QueryPlanner.parse(q)
Compile(q) ==
    /\ qplan = NoPlan
    /\ rawq' = q
    /\ qplan' = QueryPlanner_parse(q)
    /\ UNCHANGED <<otherVars, verdict, replan, dedupVars, multiVars>>

\* local_evaluate(text, qplan.ast)
Evaluate(text) ==
    /\ qplan.ok
    /\ ~verdict.called
    /\ replan = NoPlan
    /\ verdict' = [called |-> TRUE, text |-> text,
                   accepted |-> local_evaluate(text, qplan.ast)]
    /\ UNCHANGED <<otherVars, rawq, qplan, replan, dedupVars, multiVars>>

\* QueryPlanner.parse(" OR ".join(qplan.base_queries))
Recompile ==
    /\ qplan.ok
    /\ ~verdict.called
    /\ replan = NoPlan
    /\ replan' = QueryPlanner_parse(join(qplan.base_queries, <<" ", "O", "R", " ">>))
    /\ UNCHANGED <<otherVars, rawq, qplan, verdict, dedupVars, multiVars>>

QueryNext ==
    \/ \E q \in RawQueries : Compile(q)
    \/ \E text \in Texts : Evaluate(text)
    \/ Recompile

SpecQuery == CacheSpecInit /\ [][QueryNext]_vars

(* ------------------------------------------------------------------ *)
(* The deduplicator run on a list and on its own output                *)
(* ------------------------------------------------------------------ *)
\* ProductDeduplicator.deduplicate(products)
Deduplicate(products) ==
    /\ ~dd_out.called
    /\ dd_in' = products
    /\ dd_out' = deduplicate(products)
    /\ UNCHANGED <<otherVars, parseVars, dd_again, multiVars>>

\* ProductDeduplicator.deduplicate on the list the first call returned
DeduplicateAgain ==
    /\ dd_out.called
    /\ ~dd_again.called
    /\ dd_again' = deduplicate(dd_out.kept)
    /\ UNCHANGED <<otherVars, parseVars, dd_in, dd_out, multiVars>>

DedupNext ==
    \/ \E products \in ProductSeqs(MaxProducts) : Deduplicate(products)
    \/ DeduplicateAgain

SpecDedup == CacheSpecInit /\ [][DedupNext]_vars

(* ------------------------------------------------------------------ *)
(* multi_search, search and execute_advanced_search on real products    *)
(* ------------------------------------------------------------------ *)
multiFrame == <<now, fetchVars, lookup, copyVars, orchVars, parseVars, dedupVars>>

\* a call of multi_search starts on a cache an earlier search may have filled
MultiSpecInit ==
    /\ now = 1
    /\ FetchInit
    /\ kind = "base"
    /\ entries \in PrefilledCaches
    /\ lookup = NoLookup
    /\ CopyInit
    /\ OrchInit
    /\ QueryInit

\* multi_search(raw_query, sources, keywords) up to its first query: the
\* route, the plan of a boolean query (or the exception of its parse), the
\* list of plain queries, and the empty result when there is none
MultiSearch(raw_query, keywords) ==
    LET plan_of == QueryPlanner_parse(raw_query)
        queries == queries_of(raw_query)
        fresh == [all |-> <<>>, result |-> SearchResult(raw_query)]
    IN /\ m_call = NoCall
       /\ m_acc' = fresh
       /\ m_seen' = NothingSeen
       /\ IF has_boolean_syntax(raw_query)
          THEN /\ m_call' = [route |-> "advanced", raw_query |-> raw_query,
                             keywords |-> keywords, plan |-> plan_of]
               /\ m_queue' = IF plan_of.ok THEN plan_of.base_queries ELSE <<>>
               /\ m_out' = IF plan_of.ok THEN NoOutcome
                           ELSE [NoOutcome EXCEPT !.raised = plan_of.err]
          ELSE /\ m_call' = [route |-> IF queries = <<>> THEN "empty"
                                       ELSE IF Len(queries) = 1 THEN "single"
                                       ELSE "several",
                             raw_query |-> raw_query, keywords |-> keywords,
                             plan |-> NoPlan]
               /\ m_queue' = queries
               /\ m_out' = IF queries = <<>>
                           THEN [NoOutcome EXCEPT !.returned = TRUE,
                                                  !.value = SearchResult(raw_query)]
                           ELSE NoOutcome
       /\ UNCHANGED <<multiFrame, entries>>

\* one turn of the loop of execute_advanced_search: the cache probe for the
\* next base query, and on a miss the fetch (which returns got), the
\* validation and the store
AdvancedQuery(got) ==
    LET bq == Head(m_queue)
        negs == all_negatives(m_call.plan.global_negatives, m_call.keywords)
        live == evict_expired(entries, now)
        cached == first_match(live, bq, negs, MultiSources)
        checked == ProductValidator_validate(got.products)
        r == m_acc.result
    IN /\ m_call.route = "advanced"
       /\ m_out = NoOutcome
       /\ m_queue # <<>>
       /\ m_queue' = Tail(m_queue)
       /\ IF cached.hit
          THEN /\ m_acc' = [all |-> m_acc.all \o cached.results,
                            result |-> [r EXCEPT !.cache_hits = @ + 1]]
               /\ entries' = live
               /\ m_seen' = [m_seen EXCEPT !.served = Append(@, bq)]
          ELSE /\ m_acc' = [all |-> m_acc.all \o checked.valid,
                            result |-> [r EXCEPT !.errors = @ \o got.errors,
                                                 !.invalid_count = @ + checked.dropped]]
               /\ entries' = store(live, bq, negs, MultiSources, checked.valid, now)
               /\ m_seen' = [m_seen EXCEPT !.served = Append(@, bq),
                                           !.fetches = @ + 1,
                                           !.dropped = @ + checked.dropped]
       /\ UNCHANGED <<multiFrame, m_call, m_out>>

\* the end of execute_advanced_search: the merged list is validated again,
\* filtered by the AST and by the keywords, and deduplicated
AdvancedReturn ==
    LET negs == all_negatives(m_call.plan.global_negatives, m_call.keywords)
        neg_kw_list == sorted(negs)
        checked == ProductValidator_validate(m_acc.all)
        ast_filtered == ast_filter(checked.valid, m_call.plan.ast)
        ast_removed == Len(checked.valid) - Len(ast_filtered)
        filtered == filter_by_keywords(ast_filtered, neg_kw_list)
        deduped == deduplicate(filtered.kept)
        r == m_acc.result
    IN /\ m_call.route = "advanced"
       /\ m_out = NoOutcome
       /\ m_queue = <<>>
       /\ m_out' = [returned |-> TRUE, raised |-> "no",
                    value |-> [r EXCEPT !.invalid_count = @ + checked.dropped,
                                        !.total_before_filter = Len(checked.valid),
                                        !.excluded_count = excluded_total(filtered.excluded, ast_removed),
                                        !.products = deduped.kept,
                                        !.deduplicated_count = deduped.removed]]
       /\ m_seen' = [m_seen EXCEPT !.candidates = checked.valid]
       /\ UNCHANGED <<multiFrame, entries, m_call, m_queue, m_acc>>

\* the one search() of a raw query with a single segment; its result is the
\* result of multi_search
SingleSearch(got) ==
    LET s == search(entries, Head(m_queue), m_call.keywords, got, now)
    IN /\ m_call.route = "single"
       /\ m_out = NoOutcome
       /\ m_queue # <<>>
       /\ m_queue' = Tail(m_queue)
       /\ entries' = s.entries
       /\ m_out' = [returned |-> TRUE, raised |-> "no", value |-> s.result]
       /\ m_seen' = [served |-> Append(m_seen.served, Head(m_queue)),
                     fetches |-> m_seen.fetches + (IF s.fetched THEN 1 ELSE 0),
                     dropped |-> m_seen.dropped + s.dropped,
                     candidates |-> s.candidates,
                     subs |-> s.result.products]
       /\ UNCHANGED <<multiFrame, m_call, m_acc>>

\* one turn of the loop of multi_search over several segments: search() for
\* the next one, and its result added to the merged one
SubSearch(got) ==
    LET s == search(entries, Head(m_queue), m_call.keywords, got, now)
        sub == s.result
        r == m_acc.result
    IN /\ m_call.route = "several"
       /\ m_out = NoOutcome
       /\ m_queue # <<>>
       /\ m_queue' = Tail(m_queue)
       /\ entries' = s.entries
       /\ m_acc' = [all |-> m_acc.all \o sub.products,
                    result |-> [r EXCEPT !.excluded_count = @ + sub.excluded_count,
                                         !.total_before_filter = @ + sub.total_before_filter,
                                         !.cache_hits = @ + sub.cache_hits,
                                         !.errors = @ \o sub.errors]]
       /\ m_seen' = [served |-> Append(m_seen.served, Head(m_queue)),
                     fetches |-> m_seen.fetches + (IF s.fetched THEN 1 ELSE 0),
                     dropped |-> m_seen.dropped + s.dropped,
                     candidates |-> s.candidates,
                     subs |-> m_seen.subs \o sub.products]
       /\ UNCHANGED <<multiFrame, m_call, m_out>>

\* the end of multi_search over several segments: the cross-query dedup
MergedReturn ==
    LET deduped == deduplicate(m_acc.all)
    IN /\ m_call.route = "several"
       /\ m_out = NoOutcome
       /\ m_queue = <<>>
       /\ m_out' = [returned |-> TRUE, raised |-> "no",
                    value |-> [m_acc.result EXCEPT !.products = deduped.kept,
                                                   !.deduplicated_count = deduped.removed]]
       /\ UNCHANGED <<multiFrame, entries, m_call, m_queue, m_acc, m_seen>>

MultiNext ==
    \/ \E raw_query \in MultiQueries, keywords \in CallerNegatives :
           MultiSearch(raw_query, keywords)
    \/ \E got \in Batches : AdvancedQuery(got)
    \/ AdvancedReturn
    \/ \E got \in Batches : SingleSearch(got)
    \/ \E got \in Batches : SubSearch(got)
    \/ MergedReturn

SpecMulti == MultiSpecInit /\ [][MultiNext]_vars

Next == FetchNext \/ CacheNext \/ CopyNext \/ OrchNext \/ QueryNext \/ DedupNext \/ MultiNext

Spec == Init /\ [][Next]_vars

(* ------------------------------------------------------------------ *)
(* The resilient fetch layer: claims                                   *)
(* ------------------------------------------------------------------ *)
Elapsed == now - fs.circuit_opened_at
FetchRunning == pc \in {"entry", "fetch_primary", "fetch", "loop"}
RequestSent == primaryReqs' + fallbackReqs' > primaryReqs + fallbackReqs

\* C1: from a fresh fetcher, when k fetches have failed in a row and nothing
\* else has happened, the breaker is Open if k = CIRCUIT_BREAKER_THRESHOLD and
\* Closed if k is smaller.
C1_OpensAtThreshold ==
    (~FetchRunning /\ freshFails <= CIRCUIT_BREAKER_THRESHOLD)
        => (fs.circuit_open <=> freshFails = CIRCUIT_BREAKER_THRESHOLD)

C1_Witness ==
    /\ pc = "idle"
    /\ freshFails = CIRCUIT_BREAKER_THRESHOLD
    /\ fs.circuit_open
    /\ call = "fetch_post"

\* C2: a call that finds the breaker Open before the cooldown has elapsed
\* returns None at once, has sent no request, and leaves the failure counter,
\* the open-timestamp, the delay (and the breaker) as they were.
C2_OpenBlocks ==
    [][(pc = "entry" /\ pc' # "entry" /\ fs.circuit_open
            /\ Elapsed < CIRCUIT_BREAKER_COOLDOWN)
        => (/\ pc' = "idle"
            /\ result' = "None"
            /\ primaryReqs' = 0
            /\ fallbackReqs' = 0
            /\ fs'.consecutive_failures = fs.consecutive_failures
            /\ fs'.circuit_opened_at = fs.circuit_opened_at
            /\ fs'.current_delay = fs.current_delay
            /\ fs'.circuit_open)]_vars

C2_Witness ==
    /\ pc = "idle"
    /\ call = "get_page"
    /\ kind = "base"
    /\ result = "None"
    /\ primaryReqs = 0
    /\ fallbackReqs = 0
    /\ fs.circuit_open
    /\ Elapsed < CIRCUIT_BREAKER_COOLDOWN

\* C3: a page fetch that finds the breaker Open after the cooldown has elapsed
\* is let through: the breaker leaves Open and the call goes on to its request.
C3_CooldownAdmitsPageFetch ==
    [][(pc = "entry" /\ pc' # "entry" /\ call = "get_page" /\ fs.circuit_open
            /\ Elapsed >= CIRCUIT_BREAKER_COOLDOWN)
        => (~fs'.circuit_open /\ pc' # "idle")]_vars

\* C4: when the fetch of a call that was let through Half-Open fails, the
\* breaker is Open again with the time of the failure as its open-timestamp;
\* and a call is let through an Open breaker only when the cooldown has
\* elapsed since that timestamp.
C4_ProbeFailureReopens ==
    [][/\ (probe /\ pc = "loop" /\ attempt >= MAX_RETRIES /\ pc' # "loop")
            => (fs'.circuit_open /\ fs'.circuit_opened_at = now)
       /\ (fs.circuit_open /\ ~fs'.circuit_open)
            => Elapsed >= CIRCUIT_BREAKER_COOLDOWN]_vars

C4_Witness ==
    /\ pc = "idle"
    /\ probe
    /\ result = "None"
    /\ primaryReqs = MAX_RETRIES
    /\ fs.circuit_open
    /\ fs.circuit_opened_at = now
    /\ fs.consecutive_failures > CIRCUIT_BREAKER_THRESHOLD

\* C5: when the fetch of a call that was let through Half-Open succeeds, the
\* breaker is Closed, the failure counter 0, the open-timestamp cleared and
\* the delay REQUEST_DELAY.
C5_ProbeSuccessCloses ==
    [][(probe /\ pc = "loop" /\ pc' = "idle" /\ result' \in {"Response", "Soup"})
        => (/\ ~fs'.circuit_open
            /\ fs'.consecutive_failures = 0
            /\ fs'.circuit_opened_at = 0
            /\ fs'.current_delay = REQUEST_DELAY)]_vars

C5_Witness ==
    /\ pc = "idle"
    /\ probe
    /\ result = "Response"
    /\ primaryReqs = 2
    /\ fs = InitFetchState

\* C6: a call that was let through Half-Open has sent exactly one request
\* when the breaker's decision (Closed, or Open again) has been taken.
C6_SingleProbeRequest ==
    (probe /\ pc \in {"idle", "fallback"}) => primaryReqs = 1

\* C7: every request is sent while the breaker is not Open.
C7_NoRequestWhileOpen ==
    [][RequestSent => ~fs.circuit_open]_vars

\* C8: the fallback sends a request only after the primary fetch has used up
\* its attempts, and sends at most one request per page fetch.
C8_FallbackOnce ==
    /\ fallbackReqs > 0 => primaryReqs = MAX_RETRIES
    /\ fallbackReqs <= 1

\* C9: a fetch sends at most MAX_RETRIES requests, stops at the first
\* validated response, counts every other outcome as one failed attempt,
\* returns None when the attempts are used up, and never raises.
C9_BoundedRetries ==
    /\ primaryReqs <= MAX_RETRIES
    /\ result # "Raised"
    /\ pc = "loop" => (attempt = primaryReqs /\ lastOutcome # "ok")
    /\ lastOutcome = "ok" => (pc = "idle" /\ result \in {"Response", "Soup"})
    /\ (pc = "idle" /\ call \in {"fetch_get", "fetch_post"} /\ primaryReqs > 0
            /\ lastOutcome # "ok")
        => (result = "None" /\ primaryReqs = MAX_RETRIES)

C9_Witness ==
    /\ pc = "idle"
    /\ call = "fetch_get"
    /\ result = "None"
    /\ primaryReqs = MAX_RETRIES
    /\ lastOutcome = "error"
    /\ fs.current_delay > REQUEST_DELAY

(* ------------------------------------------------------------------ *)
(* The cache: claims                                                   *)
(* ------------------------------------------------------------------ *)
\* entry i of the cache is not expired and answers the lookup l
Answers(i, l) ==
    /\ now - entries[i].timestamp < QUERY_CACHE_TTL
    /\ entries[i].base_query = l.base_query
    /\ entries[i].source_ids = l.source_ids
    /\ entries[i].negative_terms \subseteq l.requested_negatives

\* C10: find_subset_match returns a hit if and only if, when it is called,
\* the cache holds an entry younger than the TTL with the same base query,
\* the same source-id set and negative terms that are a subset of the
\* requested ones.
C10_HitIffSubsetMatch ==
    [][lookup'.called
        => (lookup'.hit <=> \E i \in DOMAIN entries : Answers(i, lookup'))]_vars

\* an entry stored with {} is hit by a lookup with {x}
C10_Witness ==
    /\ lookup.called
    /\ lookup.hit
    /\ lookup.requested_negatives = {"x"}
    /\ Len(entries) = 2
    /\ entries[1].negative_terms = {"y"}
    /\ entries[2].negative_terms = {}

Age(e) == now - e.timestamp

\* C12: when find_subset_match returns, no entry older than the TTL is left
\* in the cache, and a hit is the answer of an entry that was not older than
\* the TTL when the call was made.
C12_NoExpiredResult ==
    [][lookup'.called
        => (/\ \A i \in DOMAIN entries' : now - entries'[i].timestamp <= QUERY_CACHE_TTL
            /\ lookup'.hit =>
                 \E i \in DOMAIN entries :
                    /\ Age(entries[i]) <= QUERY_CACHE_TTL
                    /\ entry_matches(entries[i], lookup'.base_query,
                                     lookup'.requested_negatives, lookup'.source_ids)
                    /\ lookup'.results = entries[i].results)]_vars

\* a lookup that found an entry older than the TTL, removed it and misses
C12_Witness ==
    /\ lookup.called
    /\ lookup.oldest > QUERY_CACHE_TTL
    /\ ~lookup.hit
    /\ lookup.requested_negatives = {"x"}
    /\ Len(entries) = 1
    /\ entries[1].base_query = "q2"
    /\ Age(entries[1]) = 1

\* C13: a store adds exactly one entry, stamped with the current time, after
\* the existing entries, which are unchanged, whether or not an entry of the
\* same key exists.
\* (Of the calls of the cache, store is the one that is not a lookup, leaves
\* the clock alone and leaves the cache non-empty.)
C13_StoreAppendsOne ==
    [][(~lookup'.called /\ now' = now /\ entries' # <<>>)
        => (/\ Len(entries') = Len(entries) + 1
            /\ SubSeq(entries', 1, Len(entries)) = entries
            /\ entries'[Len(entries')].timestamp = now)]_vars

SameKey(a, b) ==
    /\ a.base_query = b.base_query
    /\ a.negative_terms = b.negative_terms
    /\ a.source_ids = b.source_ids

\* two entries of the same key, stored at different times
C13_Witness ==
    /\ Len(entries) = 2
    /\ SameKey(entries[1], entries[2])
    /\ entries[1].timestamp < entries[2].timestamp

\* C11: whatever the caller has done to the lists it passed to store or got
\* from find_subset_match, every entry's list still has the content that was
\* stored, and a lookup returns the stored content of the first matching entry.
C11_CachedListsIsolated ==
    /\ \A i \in DOMAIN entryObj : heap[entryObj[i]] = entries[i].results
    /\ lookup.called =>
         LET m == first_match(entries, lookup.base_query, lookup.requested_negatives,
                              lookup.source_ids)
         IN lookup.hit = m.hit /\ lookup.results = m.results

\* the list passed to store and a list returned by a lookup have both been
\* changed, and a later lookup has returned the stored content
C11_Witness ==
    /\ Len(heap) = 4
    /\ entryObj = <<2>>
    /\ heap[1] = <<"p1", "p2">>
    /\ heap[3] = <<>>
    /\ lookup.called
    /\ lookup.hit
    /\ lookup.results = <<"p1">>
    /\ heap[4] = <<"p1">>

\* C14: when a base query is probed and an earlier search missed the cache
\* less than the TTL ago for the same base query and the same source ids with
\* negatives that the present ones include, and the cache was not cleared
\* since, the probe is a hit: cache_hits goes up by one and no task is dispatched.
C14_LaterSearchServedFromCache ==
    [][(/\ opc = "lookup"
        /\ \E m \in missed :
              /\ m.base_query = req.plan[bqi]
              /\ m.source_ids = Range(req.sources)
              /\ m.negs \subseteq req.negs
              /\ now - m.at < QUERY_CACHE_TTL)
        => (/\ res'.cache_hits = res.cache_hits + 1
            /\ io'.dispatched = io.dispatched
            /\ tasks' = <<>>)]_vars

\* a search with more negatives, one tick after the miss, was served from the cache
C14_Witness ==
    /\ opc = "done"
    /\ req.kind = "search"
    /\ req.negs = {"x"}
    /\ res.cache_hits = 1
    /\ io.dispatched = 0
    /\ \E m \in missed : m.base_query = "q1" /\ m.negs = {} /\ m.at < now

\* C15: an entry is added to the cache only after a fetch in which some source
\* ended with a product list, never after one in which every source ended in
\* an error.
C15_NoEntryForFailedFetch ==
    [][Len(entries') > Len(entries)
        => \E i \in DOMAIN tasks : tasks[i].batch.type = "list"]_vars

\* C16: when gather returns, every task has run to its own end, each task that
\* raised has added one error string and no product, every valid product of
\* every other task is among the candidates, and the search has not raised.
C16_SourceOutcomesIsolated ==
    [][(opc = "gather" /\ opc' # "gather")
        => LET raisedBy == {i \in DOMAIN tasks : tasks[i].batch.type = "exc"}
               added == SubSeq(res'.errors, Len(res.errors) + 1, Len(res'.errors))
           IN /\ \A i \in DOMAIN tasks : tasks[i].state = "done"
              /\ Len(added) = Cardinality(raisedBy)
              /\ \A i \in raisedBy : tasks[i].batch.msg \in Range(added)
              /\ \A i \in DOMAIN tasks \ raisedBy :
                    \A p \in Range(tasks[i].batch.products) :
                       is_valid(p) => p \in Range(scraped')
              /\ \A p \in Range(scraped') :
                    \E i \in DOMAIN tasks \ raisedBy : p \in Range(tasks[i].batch.products)
              /\ opc' = "sink"
              /\ res'.raised = "no"]_vars

\* the first source raised in search, the second one's product is a candidate
C16_Witness ==
    /\ opc = "sink"
    /\ Len(tasks) = 2
    /\ tasks[1].outcome = "raises"
    /\ tasks[2].outcome = "products"
    /\ res.errors = <<"noon">>
    /\ scraped = <<"a1">>

\* C17: whenever the orchestrator is past the fetch step of a base query
\* (products validated and stored, sink write pending), every task dispatched
\* for it has finished with a product list or an exception.
C17_WaitForAllJoin ==
    opc = "sink" =>
        /\ Len(tasks) = Len(req.sources)
        /\ \A i \in DOMAIN tasks :
              tasks[i].state = "done" /\ tasks[i].batch.type \in {"list", "exc"}

\* past the fetch step of a base query whose first source could not be
\* constructed and whose second source ran out of attempts
C17_Witness ==
    /\ opc = "sink"
    /\ Len(tasks) = 2
    /\ tasks[1].scraper = 0
    /\ tasks[1].batch.type = "exc"
    /\ tasks[2].outcome = "exhausted"

\* C18: two tasks that are running at the same time have different scraper
\* objects.
C18_NoSharedScraper ==
    \A i, j \in DOMAIN tasks :
        (i # j /\ tasks[i].state = "running" /\ tasks[j].state = "running")
            => (tasks[i].scraper # 0 /\ tasks[i].scraper # tasks[j].scraper)

\* both tasks of a base query are running
C18_Witness ==
    /\ opc = "gather"
    /\ Len(tasks) = 2
    /\ tasks[1].state = "running"
    /\ tasks[2].state = "running"

\* C19: the step of an advanced search whose raw query does not compile ends
\* the request with the parse error; up to and including that step the request
\* has made no cache lookup, dispatched no task and written nothing to the
\* sink, and the step leaves the cache as it is.
C19_ParseErrorBeforeAnyActivity ==
    [][(opc = "start" /\ req.kind = "advanced" /\ ~req.compiles)
        => (/\ opc' = "raised"
            /\ res'.raised = "parse"
            /\ entries' = entries
            /\ tasks' = <<>>
            /\ io = NoIO
            /\ io' = NoIO)]_vars

\* a request that does not compile has ended while the cache holds an entry
C19_Witness ==
    /\ opc = "raised"
    /\ res.raised = "parse"
    /\ req.kind = "advanced"
    /\ entries # <<>>
    /\ io = NoIO

\* C20: when gather returns, every source whose page fetch was exhausted has
\* an entry among the error strings added for this base query.
C20_ExhaustedFetchReported ==
    [][(opc = "gather" /\ opc' = "sink")
        => \A i \in DOMAIN tasks :
              tasks[i].outcome = "exhausted"
                 => \E k \in (Len(res.errors) + 1)..Len(res'.errors) :
                       res'.errors[k] = tasks[i].source]_vars

\* C21: a sink write that fails does not fail the search: the step that
\* writes the price snapshots never ends the request with an exception.
C21_SinkFailureDoesNotFailSearch ==
    [][opc = "sink" => (opc' # "raised" /\ res'.raised = "no")]_vars

\* a leaf of a conjunction matches the text as local_evaluate matches a leaf
LeafMatches(text, leaf) == contains(lower(text), lower(leaf.value))

\* some conjunction of the DNF has all its leaves matching the text
SomeConjunctionMatches(text, dnf) ==
    \E i \in DOMAIN dnf : \A k \in DOMAIN dnf[i] : LeafMatches(text, dnf[i][k])

\* C27: for the AST of every compiled query and every text, the local
\* evaluator accepts the text exactly if some conjunction of the DNF has all
\* its leaves matching the text; a AND (b OR c) expands to [a, b] and [a, c].
C27_DnfPreservesMeaning ==
    qplan.ok =>
        LET dnf == to_dnf(qplan.ast) IN
        /\ \A text \in Texts :
              local_evaluate(text, qplan.ast) <=> SomeConjunctionMatches(text, dnf)
        /\ verdict.called =>
              (verdict.accepted <=> SomeConjunctionMatches(verdict.text, dnf))
        /\ rawq = QABC =>
              dnf = << <<Leaf("term", <<"a">>), Leaf("term", <<"b">>)>>,
                       <<Leaf("term", <<"a">>), Leaf("term", <<"c">>)>> >>

\* a AND (b OR c) was compiled and accepts the text "A C"
C27_Witness ==
    /\ rawq = QABC
    /\ qplan.ok
    /\ verdict.called
    /\ verdict.text = <<"A", " ", "C">>
    /\ verdict.accepted

\* C28: the base queries of a compiled query, joined with " OR ", compile
\* again, and the AST of that accepts one of the base queries.
C28_RoundTrip ==
    replan # NoPlan =>
        /\ replan.ok
        /\ \E i \in DOMAIN qplan.base_queries :
              local_evaluate(qplan.base_queries[i], replan.ast)

ExprTokens(str) ==
    LET IsExpr(tok) == tok.type # "NEGATION" IN SelectSeq(tokenize(str), IsExpr)

CountOf(ts, t) == Cardinality({i \in DOMAIN ts : ts[i].type = t})

\* an AND or OR that has no operand before it or after it
MissingOperand(ts) ==
    \E i \in DOMAIN ts :
        /\ ts[i].type \in {"AND", "OR"}
        /\ \/ i = 1
           \/ i = Len(ts)
           \/ ts[i - 1].type \in {"AND", "OR", "LPAREN"}
           \/ ts[i + 1].type \in {"AND", "OR", "RPAREN"}

C30_DedupIdempotent ==
    dd_again.called => (dd_again.kept = dd_out.kept /\ dd_again.removed = 0)

(* ------------------------------------------------------------------ *)
(* multi_search: claims                                                *)
(* ------------------------------------------------------------------ *)
Returned == m_out.returned

\* C22: on every route of multi_search the invalid_count of the returned
\* SearchResult is the number of products the validator dropped over all the
\* queries that were fetched during the search
C22_InvalidCountIsValidatorDrops ==
    Returned => m_out.value.invalid_count = m_seen.dropped

\* the negative terms of a call: the keywords of the caller, and on the
\* boolean route the terms of the -term tokens of the raw query
NegatedTerms(raw_query) ==
    LET tokens == tokenize(raw_query)
    IN {tokens[i].value : i \in {j \in DOMAIN tokens : tokens[j].type = "NEGATION"}}

TitleHas(p, term) == contains(lower(p.title), lower(term))

AppliedNegatives ==
    Range(m_call.keywords)
    \cup (IF m_call.route = "advanced" THEN NegatedTerms(m_call.raw_query) ELSE {})

AstAccepts(p) ==
    m_call.route = "advanced" => local_evaluate(p.title, m_call.plan.ast)

AstRemoved == {i \in DOMAIN m_seen.candidates : ~AstAccepts(m_seen.candidates[i])}

KeywordRemoved ==
    {i \in DOMAIN m_seen.candidates :
        /\ AstAccepts(m_seen.candidates[i])
        /\ \E term \in AppliedNegatives : TitleHas(m_seen.candidates[i], term)}

\* C23: in the result of search() and of execute_advanced_search(),
\* total_before_filter is the size of the merged validated candidate list,
\* excluded_count is the number of candidates the AST filter removed (none
\* on the plain path) plus the number the keyword filter removed, and the
\* removals of the deduplication are counted in deduplicated_count only
C23_CountsOfTheResult ==
    (Returned /\ m_call.route \in {"single", "advanced"}) =>
        /\ m_out.value.total_before_filter = Len(m_seen.candidates)
        /\ m_out.value.excluded_count = Cardinality(AstRemoved) + Cardinality(KeywordRemoved)
        /\ Len(m_out.value.products) + m_out.value.deduplicated_count
             = Len(m_seen.candidates) - Cardinality(AstRemoved) - Cardinality(KeywordRemoved)

C23_Witness ==
    /\ Returned
    /\ m_call.route = "advanced"
    /\ AstRemoved # {}
    /\ KeywordRemoved # {}
    /\ m_out.value.deduplicated_count > 0

\* C24: every product a boolean search returns has a title that satisfies
\* the AST of the query under the local evaluator, for candidates from the
\* cache and from fetches, whatever the fetches returned
C24_ReturnedProductsSatisfyAst ==
    (Returned /\ m_call.route = "advanced") =>
        \A i \in DOMAIN m_out.value.products :
            local_evaluate(m_out.value.products[i].title, m_call.plan.ast)

C24_Witness ==
    /\ Returned
    /\ m_call.route = "advanced"
    /\ m_out.value.cache_hits > 0
    /\ m_seen.fetches > 0
    /\ AstRemoved # {}
    /\ m_out.value.products # <<>>

\* C25 as stated: no product multi_search returns has a title that holds a
\* keyword of the caller or a term the raw query negates with a -term token
C25_NoNegatedTermInTitles ==
    Returned =>
        \A i \in DOMAIN m_out.value.products :
            \A term \in Range(m_call.keywords) \cup NegatedTerms(m_call.raw_query) :
                ~TitleHas(m_out.value.products[i], term)

\* C25, amended: no product multi_search returns has a title that holds a
\* keyword of the caller, and no product a boolean search returns has a
\* title that holds a term the raw query negates with a -term token; the
\* -term tokens of a plain query are not applied
C25_NoAppliedNegativeInTitles ==
    Returned =>
        \A i \in DOMAIN m_out.value.products :
            \A term \in AppliedNegatives : ~TitleHas(m_out.value.products[i], term)

C25_Witness ==
    /\ Returned
    /\ m_call.route = "advanced"
    /\ m_call.keywords # <<>>
    /\ NegatedTerms(m_call.raw_query) # {}
    /\ m_out.value.cache_hits > 0
    /\ \E i \in KeywordRemoved :
           \E term \in NegatedTerms(m_call.raw_query) : TitleHas(m_seen.candidates[i], term)
    /\ m_out.value.products # <<>>

\* the words of a raw query: its longest runs of word characters
WordRuns(str) ==
    {SubSeq(str, run[1], run[2]) : run \in
        {ik \in (DOMAIN str) \X (DOMAIN str) :
            /\ ik[1] <= ik[2]
            /\ \A n \in ik[1]..ik[2] : str[n] \in WordChars
            /\ ik[1] = 1 \/ str[ik[1] - 1] \notin WordChars
            /\ ik[2] = Len(str) \/ str[ik[2] + 1] \notin WordChars}}

LooksBoolean(str) ==
    \/ \E w \in WordRuns(str) : lower(w) \in {<<"a", "n", "d">>, <<"o", "r">>}
    \/ Range(str) \cap {"(", ")", "\""} # {}

\* a string without its blanks and semicolons
Solid(str) == LET Inked(c) == c \notin {" ", ";"} IN SelectSeq(str, Inked)

\* the segments of a raw query: the stretches between semicolons that hold
\* something else than blanks
SegmentCount(str) ==
    Cardinality({i \in 1..(Len(str) + 1) :
        /\ i = 1 \/ str[i - 1] = ";"
        /\ \E j \in i..Len(str) :
              /\ str[j] \notin {" ", ";"}
              /\ \A n \in i..j : str[n] # ";"})

\* C26: a raw query with boolean syntax goes to the advanced pipeline, with
\* semicolons or without; any other is split on ';' and its blank segments
\* are dropped; with no segment left an empty SearchResult is returned and
\* nothing is dispatched, one segment is run as one search(), and several
\* are run in their order and their products deduplicated across them
C26_RoutingByShape ==
    (m_call.route # "none" /\ m_queue = <<>> /\ (Returned \/ m_out.raised # "no")) =>
        IF LooksBoolean(m_call.raw_query)
        THEN m_call.route = "advanced"
        ELSE /\ Returned
             /\ m_call.route = (IF SegmentCount(m_call.raw_query) = 0 THEN "empty"
                                ELSE IF SegmentCount(m_call.raw_query) = 1 THEN "single"
                                ELSE "several")
             /\ Len(m_seen.served) = SegmentCount(m_call.raw_query)
             /\ \A i \in DOMAIN m_seen.served :
                   LET q == m_seen.served[i]
                   IN /\ q # <<>>
                      /\ ";" \notin Range(q)
                      /\ q[1] # " " /\ q[Len(q)] # " "
             /\ Solid(Concat(m_seen.served)) = Solid(m_call.raw_query)
             /\ m_call.route = "empty" =>
                   m_seen.fetches = 0 /\ m_out.value = SearchResult(m_call.raw_query)
             /\ m_call.route = "single" => m_out.value.products = m_seen.subs
             /\ m_call.route = "several" =>
                   /\ m_out.value.products = deduplicate(m_seen.subs).kept
                   /\ m_out.value.deduplicated_count
                        = Len(m_seen.subs) - Len(m_out.value.products)

C26_Witness ==
    /\ Returned
    /\ m_call.route = "several"
    /\ Len(m_seen.served) = 2
    /\ m_seen.served[1] # m_seen.served[2]
    /\ Len(m_call.raw_query) > 3
    /\ m_out.value.deduplicated_count > 0

C26_WitnessBoolean ==
    /\ Returned
    /\ m_call.route = "advanced"
    /\ ";" \in Range(m_call.raw_query)

(* ------------------------------------------------------------------ *)
(* The deduplicator: what is kept                                      *)
(* ------------------------------------------------------------------ *)
\* two products are duplicates: the same normalised url, not empty, or the
\* same source and normalised title
Duplicates(p, q) ==
    \/ normalise_url(p.url) # <<>> /\ normalise_url(p.url) = normalise_url(q.url)
    \/ title_key(p) = title_key(q)

\* the products reached from p over n steps of Duplicates within S
RECURSIVE GroupWithin(_, _, _)
GroupWithin(p, S, n) ==
    IF n = 0 THEN {p}
    ELSE LET near == GroupWithin(p, S, n - 1)
         IN near \cup {q \in S : \E m \in near : Duplicates(m, q)}

\* the group of duplicates of p in the list given to deduplicate
GroupOf(p) == GroupWithin(p, Range(dd_in), Len(dd_in))

\* C31: deduplicate keeps the cheapest product of each group of duplicates,
\* and never prefers a product of price 0 to one with a positive price: for
\* every product with a positive price, a product of its group with a
\* positive price not above it is kept
C31_CheapestOfGroupKept ==
    dd_out.called =>
        \A p \in Range(dd_in) :
            p.price > 0 =>
                \E k \in Range(dd_out.kept) \cap GroupOf(p) :
                    k.price > 0 /\ k.price <= p.price

\* C39: the list deduplicate returns has no two products with the same
\* normalised url (not empty) and no two products of one source with the
\* same normalised title, and every product that was removed is a duplicate
\* of a product in the list
C39_NoDuplicatesInOutput ==
    dd_out.called =>
        /\ \A i \in DOMAIN dd_out.kept : \A j \in DOMAIN dd_out.kept :
               i < j => ~Duplicates(dd_out.kept[i], dd_out.kept[j])
        /\ \A p \in Range(dd_in) :
               p \notin Range(dd_out.kept) =>
                   \E k \in Range(dd_out.kept) : Duplicates(p, k)

(* ------------------------------------------------------------------ *)
(* The resilient fetch layer: the counter and the delay                *)
(* ------------------------------------------------------------------ *)
MaxDelay == REQUEST_DELAY * MAX_DELAY_MULTIPLIER

Doubled(d) == Min(2 * d, MaxDelay)

\* the retry loop ends without a response
LoopExhausts == pc = "loop" /\ attempt >= MAX_RETRIES /\ pc' # "loop"

\* the retry loop ends with a validated response
LoopSucceeds == pc = "loop" /\ pc' = "idle" /\ result' \in {"Response", "Soup"}

\* a request of the retry loop has come back
LoopRequest == pc = "loop" /\ primaryReqs' = primaryReqs + 1

\* C32: a fetch that exhausts its attempts adds exactly 1 to the failure
\* counter, a fetch that succeeds sets it to 0, and nothing else changes it
C32_CounterStepsPerFetch ==
    [][/\ LoopExhausts => fs'.consecutive_failures = fs.consecutive_failures + 1
       /\ LoopSucceeds => fs'.consecutive_failures = 0
       /\ fs'.consecutive_failures # fs.consecutive_failures
            => (LoopExhausts \/ LoopSucceeds)]_vars

C32_Witness ==
    /\ pc = "idle"
    /\ result = "None"
    /\ primaryReqs = MAX_RETRIES
    /\ lastOutcome = "http500"
    /\ fs.consecutive_failures = 1

\* C33: the delay is always between REQUEST_DELAY and REQUEST_DELAY *
\* MAX_DELAY_MULTIPLIER; when it changes it becomes min(2 * delay, the cap)
\* or, on a success, REQUEST_DELAY
C33_DelayWithinBounds ==
    /\ [](REQUEST_DELAY <= fs.current_delay /\ fs.current_delay <= MaxDelay)
    /\ [][/\ fs'.current_delay # fs.current_delay
               => \/ fs'.current_delay = Doubled(fs.current_delay)
                  \/ LoopSucceeds /\ fs'.current_delay = REQUEST_DELAY
          /\ LoopSucceeds => fs'.current_delay = REQUEST_DELAY]_vars

C33_Witness ==
    /\ fs.current_delay = MaxDelay
    /\ fs.consecutive_failures > 0
    /\ pc = "loop"
    /\ primaryReqs = 2
    /\ lastOutcome = "http429"

\* C34: in the retry loop a 429 or a 403 doubles the delay up to the cap
\* before the next attempt, and any other status that is not 200 leaves the
\* delay as it is
C34_OnlyRateLimitEscalates ==
    [][LoopRequest =>
          /\ lastOutcome' \in {"http429", "http403"}
               => fs'.current_delay = Doubled(fs.current_delay)
          /\ lastOutcome' = "http500" => fs' = fs]_vars

C34_Witness ==
    /\ pc = "loop"
    /\ attempt = 2
    /\ lastOutcome = "http500"
    /\ fs.current_delay = 2 * REQUEST_DELAY
    /\ fs.consecutive_failures = 0

\* C36: an Open breaker has a failure counter of at least
\* CIRCUIT_BREAKER_THRESHOLD, and a counter at or above the threshold stays
\* there, through Half-Open too, until a fetch succeeds
C36_OpenImpliesCounterAtThreshold ==
    /\ [](fs.circuit_open => fs.consecutive_failures >= CIRCUIT_BREAKER_THRESHOLD)
    /\ [][(/\ fs.consecutive_failures >= CIRCUIT_BREAKER_THRESHOLD
           /\ fs'.consecutive_failures < CIRCUIT_BREAKER_THRESHOLD)
             => LoopSucceeds]_vars

C36_Witness ==
    /\ probe
    /\ pc = "loop"
    /\ ~fs.circuit_open
    /\ fs.consecutive_failures >= CIRCUIT_BREAKER_THRESHOLD

\* C37: the fallback of BaseScraper._get_page leaves the fetch state as the
\* exhausted primary fetch left it, whatever its request comes back with, so
\* that a page the fallback served still counts as a failure
C37_FallbackKeepsFetchState ==
    /\ [][(kind = "base" /\ pc = "fallback") => fs' = fs]_vars
    /\ [](kind = "base" /\ pc = "idle" /\ result = "Soup" /\ fallbackReqs > 0
            => fs.consecutive_failures > 0)

C37_Witness ==
    /\ kind = "base"
    /\ pc = "idle"
    /\ result = "Soup"
    /\ fallbackReqs = 1
    /\ fs.consecutive_failures = CIRCUIT_BREAKER_THRESHOLD
    /\ fs.circuit_open

(* ------------------------------------------------------------------ *)
(* The query compiler: the shape of the AST                            *)
(* ------------------------------------------------------------------ *)
RECURSIVE NoUnaryOperator(_)
NoUnaryOperator(node) ==
    node.type \in {"and", "or"} =>
        /\ Len(node.children) >= 2
        /\ \A i \in DOMAIN node.children : NoUnaryOperator(node.children[i])

\* C35: in the AST of every query the parser accepts, every And and Or
\* node has at least two children; an operator with one operand is that
\* operand
C35_NoUnaryOperators == qplan.ok => NoUnaryOperator(qplan.ast)

C35_Witness ==
    /\ rawq = QNested
    /\ qplan.ok
    /\ qplan.ast = Branch("or", <<Leaf("term", <<"a">>), Leaf("term", <<"b">>)>>)

(* ------------------------------------------------------------------ *)
(* multi_search: the accounts of the result and the cached products    *)
(* ------------------------------------------------------------------ *)
\* C38: on every route of multi_search the returned SearchResult has
\* total_before_filter = excluded_count + deduplicated_count + the number
\* of its products
C38_AccountingConserved ==
    Returned =>
        m_out.value.total_before_filter
            = m_out.value.excluded_count + m_out.value.deduplicated_count
              + Len(m_out.value.products)

\* a product the validator lets through: a title that is not blank and a
\* price above 0
IsValidProduct(p) ==
    /\ \E i \in DOMAIN p.title : p.title[i] # " "
    /\ p.price > 0

\* C40: every product of every cache entry is valid, the entries being
\* stored after validation only; so the second validation, of the cached
\* products of a hit or of the merged list of a boolean search, drops
\* nothing and adds nothing to invalid_count
C40_CachedProductsAreValid ==
    /\ \A i \in DOMAIN entries :
           \A j \in DOMAIN entries[i].results : IsValidProduct(entries[i].results[j])
    /\ \A j \in DOMAIN m_acc.all : IsValidProduct(m_acc.all[j])
    /\ (Returned /\ m_call.route = "advanced") =>
           m_out.value.invalid_count = m_seen.dropped
    /\ (Returned /\ m_call.route = "single" /\ m_out.value.cache_hits = 1) =>
           m_out.value.invalid_count = 0

C40_Witness ==
    /\ Returned
    /\ m_call.route = "advanced"
    /\ m_out.value.cache_hits > 0
    /\ m_seen.fetches > 0
    /\ m_seen.dropped > 0
    /\ Len(entries) = 2

====
